---- MODULE Spec2Model ----
(***************************************************************************)
(* goflux-lite: the resumable chunked-upload subsystem.                    *)
(*   pkg/resume/session.go   SessionStore (in-memory map + one JSON file   *)
(*                           per session in metaDir)                       *)
(*   pkg/server/server.go    handleUpload, reassembleFromDisk,             *)
(*                           handleUploadStatus                            *)
(*   pkg/storage/storage.go  Local (sanitizePath and the six operations)   *)
(*   pkg/chunk/chunk.go      Chunker.Split, Chunker.Reassemble             *)
(*   pkg/auth                TokenStore, ChallengeStore, RequireAuth       *)
(*   cmd/client/main.go      uploadSingleFile (gfl put)                    *)
(* Spec runs whole requests one after another; SpecSteps and SpecReplay    *)
(* run the handlers' goroutines step by step, lock by lock.                *)
(* Byte strings (paths, payloads, file contents) are sequences of byte     *)
(* values. The whole machine state is also handled as one record (see      *)
(* Cur) so that an operation is an operator from state to state.           *)
(***************************************************************************)
EXTENDS Integers, Sequences, FiniteSets, TLC

VARIABLES
    sessions,      \* SessionStore.sessions: session ID -> UploadSession
    metaFiles,     \* metaDir/<sessionID>.json: session ID -> file content
    chunkDirs,     \* directories under chunksDir (one per staging name)
    chunkFiles,    \* chunksDir/<dir>/chunk_<n>.dat: <<dir, n>> -> payload
    tempFiles,     \* chunksDir/temp_<base>: the base names that exist
    storageFiles,  \* the regular files of the storage's disk: location -> data
    storageDirs,   \* the directories of the storage's disk (locations)
    now,           \* the clock read by time.Now()
    served,        \* how many operations have run (history)
    last,          \* the last operation that ran and how it ended (history)
    marked,        \* path -> indices whose MarkChunkReceived returned nil
                   \* since the path's session was created (history)
    mu,            \* Server.mu: 0 when free, else the handler that holds it
    handlers,      \* the goroutines serving /upload: where each one is
    statusReq,      \* the goroutine serving /upload/status: where it is
    storeMu,       \* SessionStore.mu: the goroutines holding it for writing
                   \* (at most one) and for reading
    sweeper,       \* the goroutine calling CleanupOldSessions: where it is
    codec,         \* pkg/chunk: the input of Split or Reassemble and its result
    auth           \* pkg/auth and the admin tool: token file, token store,
                   \* challenges, clock, the answer to the last request

\* the state of the upload server
serverVars == <<sessions, metaFiles, chunkDirs, chunkFiles, tempFiles,
                storageFiles, storageDirs, now, served, last, marked, mu,
                handlers, statusReq, storeMu, sweeper>>

\* the session store's lock and the sweeping goroutine
lockVars == <<storeMu, sweeper>>

\* the state of the packages checked on their own
libVars == <<codec, auth>>

vars == <<sessions, metaFiles, chunkDirs, chunkFiles, tempFiles,
          storageFiles, storageDirs, now, served, last, marked, mu, handlers,
          statusReq, storeMu, sweeper, codec, auth>>

-----------------------------------------------------------------------------
(* Bounds of the model *)

MaxTotal == 2
MaxRequests == 2
MaxStoreOps == 3

(* Program constant: handleUpload keeps sessionHash[:16] *)
HexPrefixLen == 16

(* Destination paths: "a.b", "/up/dir/a", "/up/dir/b" *)
PShort == <<97, 46, 98>>
PA == <<47, 117, 112, 47, 100, 105, 114, 47, 97>>
PB == <<47, 117, 112, 47, 100, 105, 114, 47, 98>>
Paths == {PShort, PA, PB}

Payloads == {<<7>>, <<8, 9>>}
Totals == (-1)..MaxTotal
Indices == (-1)..MaxTotal
Requests == [Path : Paths, ChunkID : Indices, Total : Totals, Data : Payloads]

-----------------------------------------------------------------------------
(* Finite maps *)

MapPut(f, k, v) == [x \in (DOMAIN f) \cup {k} |-> IF x = k THEN v ELSE f[x]]
MapDel(f, k) == [x \in (DOMAIN f) \ {k} |-> f[x]]
EmptyMap == <<>>

RECURSIVE SeqOfSet(_)
SeqOfSet(S) ==
    IF S = {} THEN <<>>
    ELSE LET m == CHOOSE x \in S : \A y \in S : x <= y
         IN <<m>> \o SeqOfSet(S \ {m})

-----------------------------------------------------------------------------
(* The machine state as one record *)

Cur == [sessions |-> sessions, metaFiles |-> metaFiles, chunkDirs |-> chunkDirs,
        chunkFiles |-> chunkFiles, tempFiles |-> tempFiles,
        storageFiles |-> storageFiles, storageDirs |-> storageDirs, now |-> now]

SetState(st) ==
    /\ sessions' = st.sessions
    /\ metaFiles' = st.metaFiles
    /\ chunkDirs' = st.chunkDirs
    /\ chunkFiles' = st.chunkFiles
    /\ tempFiles' = st.tempFiles
    /\ storageFiles' = st.storageFiles
    /\ storageDirs' = st.storageDirs
    /\ now' = st.now

\* one operation run from its start to its end, no other goroutine at work
Install(st) ==
    /\ SetState(st)
    /\ served' = served + 1
    /\ UNCHANGED <<mu, handlers, statusReq>>
    /\ UNCHANGED lockVars
    /\ UNCHANGED libVars

-----------------------------------------------------------------------------
(* pkg/resume/session.go *)

\* SHA-256 of the path, first 16 hex characters. The digest is not computed:
\* it is taken to be collision-free on Paths, and is written as the digest
\* "of" its argument.
makeSessionID(path) == [sha |-> path]

\* json.MarshalIndent of an UploadSession: the struct's fields under their
\* json tags. A file's content is a sequence of JSON documents: <<doc>> for
\* a complete file, <<>> for an empty (truncated) one.
Marshal(s) ==
    [path |-> s.Path, total_chunks |-> s.TotalChunks, chunk_size |-> s.ChunkSize,
     file_hash |-> s.FileHash, received_map |-> s.ReceivedMap,
     created_at |-> s.CreatedAt, last_modified |-> s.LastModified,
     completed |-> s.Completed]

\* json.Unmarshal into an UploadSession
Unmarshal(d) ==
    [Path |-> d.path, TotalChunks |-> d.total_chunks, ChunkSize |-> d.chunk_size,
     FileHash |-> d.file_hash, ReceivedMap |-> d.received_map,
     CreatedAt |-> d.created_at, LastModified |-> d.last_modified,
     Completed |-> d.completed]

\* os.WriteFile(metaFile, data): the file holds the whole document
saveSession(st, sessionID, session) ==
    [st EXCEPT !.metaFiles = MapPut(st.metaFiles, sessionID, <<Marshal(session)>>)]

\* os.WriteFile opens with O_TRUNC and then writes: a process that stops
\* between the two leaves the file empty
saveSessionTruncated(st, sessionID) ==
    [st EXCEPT !.metaFiles = MapPut(st.metaFiles, sessionID, <<>>)]

\* loadSessions: every *.json file that parses becomes a session, keyed by
\* its file name; a file that does not parse is skipped with a warning
loadSessions(files) ==
    [id \in {f \in DOMAIN files : Len(files[f]) = 1} |-> Unmarshal(files[id][1])]

\* NewSessionStore: a fresh map, then loadSessions
NewSessionStore(st) == [st EXCEPT !.sessions = loadSessions(st.metaFiles)]

AllReceived(receivedMap) == \A i \in 1..Len(receivedMap) : receivedMap[i]

\* (mutant) a request that declares another total replaces the session
GetOrCreateSession_Replace(st, path, totalChunks, chunkSize, crashAt) ==
    LET sessionID == makeSessionID(path)
        session ==
            [Path |-> path, TotalChunks |-> totalChunks, ChunkSize |-> chunkSize,
             FileHash |-> <<>>,
             ReceivedMap |-> [i \in 1..totalChunks |-> FALSE],
             CreatedAt |-> st.now, LastModified |-> st.now,
             Completed |-> FALSE]
        s1 == [st EXCEPT !.sessions = MapPut(st.sessions, sessionID, session),
                         !.now = st.now + 1]
    IN IF sessionID \in DOMAIN st.sessions
          /\ st.sessions[sessionID].TotalChunks = totalChunks
       THEN [st |-> st, err |-> "none", created |-> FALSE]
       ELSE IF totalChunks < 0
       THEN [st |-> st, err |-> "panic", created |-> FALSE]
       ELSE [st |-> saveSession(s1, sessionID, session), err |-> "none",
             created |-> TRUE]

\* (mutant) an existing session is returned whatever total is declared
GetOrCreateSession_NoCheck(st, path, totalChunks, chunkSize, crashAt) ==
    LET sessionID == makeSessionID(path) IN
    IF sessionID \in DOMAIN st.sessions
    THEN [st |-> st, err |-> "none", created |-> FALSE]
    ELSE IF totalChunks < 0
    THEN [st |-> st, err |-> "panic", created |-> FALSE]
    ELSE LET session ==
                 [Path |-> path, TotalChunks |-> totalChunks, ChunkSize |-> chunkSize,
                  FileHash |-> <<>>,
                  ReceivedMap |-> [i \in 1..totalChunks |-> FALSE],
                  CreatedAt |-> st.now, LastModified |-> st.now,
                  Completed |-> FALSE]
             s1 == [st EXCEPT !.sessions = MapPut(st.sessions, sessionID, session),
                              !.now = st.now + 1]
         IN [st |-> saveSession(s1, sessionID, session), err |-> "none",
             created |-> TRUE]

\* The two time.Now() of the struct literal are taken as one reading of the
\* clock; every reading moves the clock on.
\* err: "none" | "mismatch" | "panic" (make([]bool, n) with n < 0)
\*      | "crash" (the process stopped inside saveSession)
\*      | "save" (saveSession returned an error: the session is in the map
\*        and the file is as it was)
GetOrCreateSession(st, path, totalChunks, chunkSize, crashAt) ==
    LET sessionID == makeSessionID(path) IN
    IF sessionID \in DOMAIN st.sessions
    THEN IF st.sessions[sessionID].TotalChunks # totalChunks
         THEN [st |-> st, err |-> "mismatch", created |-> FALSE]
         ELSE [st |-> st, err |-> "none", created |-> FALSE]
    ELSE IF totalChunks < 0
    THEN [st |-> st, err |-> "panic", created |-> FALSE]
    ELSE LET session ==
                 [Path |-> path, TotalChunks |-> totalChunks, ChunkSize |-> chunkSize,
                  FileHash |-> <<>>,
                  ReceivedMap |-> [i \in 1..totalChunks |-> FALSE],
                  CreatedAt |-> st.now, LastModified |-> st.now,
                  Completed |-> FALSE]
             s1 == [st EXCEPT !.sessions = MapPut(st.sessions, sessionID, session),
                              !.now = st.now + 1]
         IN IF crashAt = "create.save"
            THEN [st |-> saveSessionTruncated(s1, sessionID), err |-> "crash",
                  created |-> TRUE]
            ELSE IF crashAt = "fault.create.save"
            THEN [st |-> s1, err |-> "save", created |-> TRUE]
            ELSE [st |-> saveSession(s1, sessionID, session), err |-> "none",
                  created |-> TRUE]

\* (mutant) the session is stamped and saved before the index is checked
MarkChunkReceived_StampFirst(st, path, chunkID, crashAt) ==
    LET sessionID == makeSessionID(path) IN
    IF sessionID \notin DOMAIN st.sessions
    THEN [st |-> st, err |-> "notfound"]
    ELSE LET old == st.sessions[sessionID]
             stamped == [old EXCEPT !.LastModified = st.now]
             s0 == saveSession([st EXCEPT !.sessions = MapPut(st.sessions, sessionID,
                                                              stamped),
                                          !.now = st.now + 1],
                               sessionID, stamped)
         IN IF chunkID < 0 \/ chunkID >= old.TotalChunks
            THEN [st |-> s0, err |-> "invalid"]
            ELSE LET rm == [old.ReceivedMap EXCEPT ![chunkID + 1] = TRUE]
                     session == [stamped EXCEPT !.ReceivedMap = rm,
                                                !.Completed = AllReceived(rm)]
                 IN [st |-> saveSession([s0 EXCEPT !.sessions =
                                             MapPut(s0.sessions, sessionID, session)],
                                        sessionID, session),
                     err |-> "none"]

\* (mutant) the bitmap is updated in memory and never written to disk
MarkChunkReceived_NoSave(st, path, chunkID, crashAt) ==
    LET sessionID == makeSessionID(path) IN
    IF sessionID \notin DOMAIN st.sessions
    THEN [st |-> st, err |-> "notfound"]
    ELSE LET old == st.sessions[sessionID] IN
         IF chunkID < 0 \/ chunkID >= old.TotalChunks
         THEN [st |-> st, err |-> "invalid"]
         ELSE LET rm == [old.ReceivedMap EXCEPT ![chunkID + 1] = TRUE]
                  session == [old EXCEPT !.ReceivedMap = rm,
                                         !.LastModified = st.now,
                                         !.Completed = AllReceived(rm)]
              IN [st |-> [st EXCEPT !.sessions = MapPut(st.sessions, sessionID, session),
                                    !.now = st.now + 1],
                  err |-> "none"]

\* err: "none" | "notfound" | "invalid" | "crash" | "save"
MarkChunkReceived(st, path, chunkID, crashAt) ==
    LET sessionID == makeSessionID(path) IN
    IF sessionID \notin DOMAIN st.sessions
    THEN [st |-> st, err |-> "notfound"]
    ELSE LET old == st.sessions[sessionID] IN
         IF chunkID < 0 \/ chunkID >= old.TotalChunks
         THEN [st |-> st, err |-> "invalid"]
         ELSE LET rm == [old.ReceivedMap EXCEPT ![chunkID + 1] = TRUE]
                  session == [old EXCEPT !.ReceivedMap = rm,
                                         !.LastModified = st.now,
                                         !.Completed = AllReceived(rm)]
                  s1 == [st EXCEPT !.sessions = MapPut(st.sessions, sessionID, session),
                                   !.now = st.now + 1]
              IN IF crashAt = "mark.save"
                 THEN [st |-> saveSessionTruncated(s1, sessionID), err |-> "crash"]
                 ELSE IF crashAt = "fault.mark.save"
                 THEN [st |-> s1, err |-> "save"]
                 ELSE [st |-> saveSession(s1, sessionID, session), err |-> "none"]

\* GetSession: (session, exists)
GetSession(st, path) ==
    LET sessionID == makeSessionID(path) IN
    IF sessionID \in DOMAIN st.sessions
    THEN [exists |-> TRUE, session |-> <<st.sessions[sessionID]>>]
    ELSE [exists |-> FALSE, session |-> <<>>]

\* (mutant) the map entry goes, the metadata file stays
DeleteSession_MemoryOnly(st, path) ==
    [st EXCEPT !.sessions = MapDel(st.sessions, makeSessionID(path))]

\* DeleteSession: the map entry and the metadata file
DeleteSession(st, path) ==
    LET sessionID == makeSessionID(path) IN
    [st EXCEPT !.sessions = MapDel(st.sessions, sessionID),
               !.metaFiles = MapDel(st.metaFiles, sessionID)]

\* (mutant) the scan collects the positions that are true
RECURSIVE MissingFrom_Received(_, _)
MissingFrom_Received(receivedMap, i) ==
    IF i > Len(receivedMap) THEN <<>>
    ELSE (IF receivedMap[i] THEN <<i - 1>> ELSE <<>>)
         \o MissingFrom_Received(receivedMap, i + 1)

\* GetMissingChunks: the positions that are false, in the order of the scan
RECURSIVE MissingFrom(_, _)
MissingFrom(receivedMap, i) ==
    IF i > Len(receivedMap) THEN <<>>
    ELSE (IF receivedMap[i] THEN <<>> ELSE <<i - 1>>) \o MissingFrom(receivedMap, i + 1)

GetMissingChunks(st, path) ==
    LET sessionID == makeSessionID(path) IN
    IF sessionID \notin DOMAIN st.sessions
    THEN [err |-> "notfound", missing |-> <<>>]
    ELSE [err |-> "none", missing |-> MissingFrom(st.sessions[sessionID].ReceivedMap, 1)]

\* (mutant) completed sessions are swept as well
CleanupOldSessions_AlsoCompleted(st, maxAge) ==
    LET cutoff == st.now - maxAge
        toDelete == {id \in DOMAIN st.sessions : st.sessions[id].LastModified < cutoff}
    IN [st EXCEPT !.sessions = [id \in (DOMAIN st.sessions) \ toDelete |-> st.sessions[id]],
                  !.metaFiles = [id \in (DOMAIN st.metaFiles) \ toDelete |-> st.metaFiles[id]],
                  !.now = st.now + 1]

\* CleanupOldSessions(maxAge): incomplete sessions last modified before
\* now - maxAge leave the map and the metadata directory
CleanupOldSessions(st, maxAge) ==
    LET cutoff == st.now - maxAge
        toDelete == {id \in DOMAIN st.sessions :
                        st.sessions[id].LastModified < cutoff
                        /\ ~st.sessions[id].Completed}
    IN [st EXCEPT !.sessions = [id \in (DOMAIN st.sessions) \ toDelete |-> st.sessions[id]],
                  !.metaFiles = [id \in (DOMAIN st.metaFiles) \ toDelete |-> st.metaFiles[id]],
                  !.now = st.now + 1]

-----------------------------------------------------------------------------
(* path/filepath on byte strings (47 is '/', 46 is '.', 92 is '\') *)

\* the elements between the separators, empty ones included
RECURSIVE Comps(_)
Comps(s) ==
    IF s = <<>> THEN << <<>> >>
    ELSE LET rest == Comps(Tail(s)) IN
         IF Head(s) = 47 THEN << <<>> >> \o rest
         ELSE << <<Head(s)>> \o Head(rest) >> \o Tail(rest)

\* filepath.Clean on one element: "" and "." vanish, ".." removes the element
\* before it, is dropped at the root of a rooted path and is kept otherwise
CleanElem(stack, c, rooted) ==
    IF c = <<>> \/ c = <<46>> THEN stack
    ELSE IF c # <<46, 46>> THEN Append(stack, c)
    ELSE IF Len(stack) > 0 /\ stack[Len(stack)] # <<46, 46>>
    THEN SubSeq(stack, 1, Len(stack) - 1)
    ELSE IF rooted THEN stack
    ELSE Append(stack, c)

\* filepath.Clean's scan over the elements, left to right
RECURSIVE Resolve(_, _, _)
Resolve(comps, stack, rooted) ==
    IF comps = <<>> THEN stack
    ELSE Resolve(Tail(comps), CleanElem(stack, Head(comps), rooted), rooted)

RECURSIVE StripTrailingSlashes(_)
StripTrailingSlashes(s) ==
    IF s # <<>> /\ s[Len(s)] = 47 THEN StripTrailingSlashes(SubSeq(s, 1, Len(s) - 1))
    ELSE s

\* filepath.Base
Base(path) ==
    IF path = <<>> THEN <<46>>
    ELSE LET t == StripTrailingSlashes(path) IN
         IF t = <<>> THEN <<47>>
         ELSE LET c == Comps(t) IN c[Len(c)]

-----------------------------------------------------------------------------
(* pkg/storage/storage.go *)

\* The storage root "/s/d" as the list of its elements (115 is 's', 100 'd')
RootDir == << <<115>>, <<100>> >>

\* the location and its ancestors, the root of the file system included
Prefixes(loc) == {SubSeq(loc, 1, n) : n \in 0..Len(loc)}

\* loc is dir or lies below it
IsUnder(loc, dir) == Len(loc) >= Len(dir) /\ SubSeq(loc, 1, Len(dir)) = dir

\* filepath.Dir of a location
Parent(loc) == SubSeq(loc, 1, Len(loc) - 1)

\* os.MkdirAll: fails when the location or one of its ancestors is a regular
\* file, otherwise makes the directories that are missing
StorageMkdirAll(st, loc) ==
    IF \E q \in Prefixes(loc) : q \in DOMAIN st.storageFiles
    THEN [st |-> st, err |-> "not a directory"]
    ELSE [st |-> [st EXCEPT !.storageDirs = @ \cup Prefixes(loc)], err |-> "none"]

\* os.WriteFile: the parent must be a directory and the location must not be
\* one; the file is created or replaced
WriteFile(st, loc, data) ==
    IF Parent(loc) \notin st.storageDirs THEN [st |-> st, err |-> "no such directory"]
    ELSE IF loc \in st.storageDirs THEN [st |-> st, err |-> "is a directory"]
    ELSE [st |-> [st EXCEPT !.storageFiles = MapPut(@, loc, data)], err |-> "none"]

\* os.Stat
Stat(st, loc) ==
    IF loc \in st.storageDirs THEN [err |-> "none", isDir |-> TRUE]
    ELSE IF loc \in DOMAIN st.storageFiles THEN [err |-> "none", isDir |-> FALSE]
    ELSE IF \E q \in Prefixes(loc) : q \in DOMAIN st.storageFiles
    THEN [err |-> "not a directory", isDir |-> FALSE]
    ELSE [err |-> "not exist", isDir |-> FALSE]

\* os.RemoveAll: the location and everything below it
StorageRemoveAll(st, loc) ==
    [st EXCEPT !.storageFiles = [k \in {f \in DOMAIN @ : ~IsUnder(f, loc)} |-> @[k]],
               !.storageDirs = {d \in @ : ~IsUnder(d, loc)}]

\* os.Remove of a regular file
Remove(st, loc) == [st EXCEPT !.storageFiles = MapDel(@, loc)]

\* byte-wise order of two names
RECURSIVE LexLess(_, _)
LexLess(a, b) ==
    IF a = <<>> THEN b # <<>>
    ELSE IF b = <<>> THEN FALSE
    ELSE IF Head(a) # Head(b) THEN Head(a) < Head(b)
    ELSE LexLess(Tail(a), Tail(b))

RECURSIVE SortNames(_)
SortNames(S) ==
    IF S = {} THEN <<>>
    ELSE LET m == CHOOSE x \in S : \A y \in S \ {x} : LexLess(x, y)
         IN <<m>> \o SortNames(S \ {m})

\* os.ReadDir: the names of the directory's entries, sorted
ReadDir(st, loc) ==
    IF loc \notin st.storageDirs THEN [err |-> "not a directory", names |-> <<>>]
    ELSE [err |-> "none",
          names |-> SortNames({k[Len(loc) + 1] :
                        k \in {e \in (DOMAIN st.storageFiles) \cup st.storageDirs :
                                  Len(e) = Len(loc) + 1 /\ IsUnder(e, loc)}})]

\* Local.sanitizePath: Clean, drop one leading '/' and one leading '\', join
\* with the root (Join cleans again) and require the result to be the root
\* or to lie under it. The result is the location as a list of elements.
TrimLeadingBackslash(clean) ==
    IF clean # <<>> /\ clean[1][1] = 92
    THEN <<Tail(clean[1])>> \o Tail(clean)
    ELSE clean

\* (mutant) the joined path is not compared with the root
UnderRoot_Unchecked(joined) == [err |-> "none", full |-> joined]

UnderRoot(joined) ==
    IF IsUnder(joined, RootDir)
    THEN [err |-> "none", full |-> joined]
    ELSE [err |-> "traversal", full |-> <<>>]

sanitizePath(path) ==
    LET rooted == path # <<>> /\ path[1] = 47
        clean == Resolve(Comps(path), <<>>, rooted)
    IN UnderRoot(Resolve(RootDir \o TrimLeadingBackslash(clean), <<>>, TRUE))

\* Local.Put: sanitizePath, MkdirAll of the parent, os.WriteFile
Put(st, path, data) ==
    LET p == sanitizePath(path) IN
    IF p.err # "none" THEN [st |-> st, err |-> "invalid path"]
    ELSE IF StorageMkdirAll(st, Parent(p.full)).err # "none"
    THEN [st |-> st, err |-> "failed to create directory"]
    ELSE WriteFile(StorageMkdirAll(st, Parent(p.full)).st, p.full, data)

\* Local.Get: sanitizePath, os.ReadFile
Get(st, path) ==
    LET p == sanitizePath(path) IN
    IF p.err # "none" THEN [err |-> "invalid path", data |-> <<>>]
    ELSE IF p.full \notin DOMAIN st.storageFiles THEN [err |-> "not found", data |-> <<>>]
    ELSE [err |-> "none", data |-> st.storageFiles[p.full]]

\* Local.Exists
Exists(st, path) ==
    LET p == sanitizePath(path) IN
    IF p.err # "none" THEN FALSE
    ELSE Stat(st, p.full).err = "none"

\* Local.List
List(st, path) ==
    LET p == sanitizePath(path) IN
    IF p.err # "none" THEN [err |-> "invalid path", names |-> <<>>]
    ELSE ReadDir(st, p.full)

\* Local.Delete
Delete(st, path) ==
    LET p == sanitizePath(path) IN
    IF p.err # "none" THEN [st |-> st, err |-> "invalid path"]
    ELSE IF Stat(st, p.full).err = "not exist"
    THEN [st |-> st, err |-> "path does not exist"]
    ELSE IF Stat(st, p.full).err # "none"
    THEN [st |-> st, err |-> "failed to stat path"]
    ELSE IF Stat(st, p.full).isDir
    THEN [st |-> StorageRemoveAll(st, p.full), err |-> "none"]
    ELSE [st |-> Remove(st, p.full), err |-> "none"]

\* Local.Mkdir
Mkdir(st, path) ==
    LET p == sanitizePath(path) IN
    IF p.err # "none" THEN [st |-> st, err |-> "invalid path"]
    ELSE StorageMkdirAll(st, p.full)

-----------------------------------------------------------------------------
(* pkg/server/server.go *)

\* fmt.Sprintf("%x", []byte(path)): two hex digits per byte
RECURSIVE HexEncode(_)
HexEncode(bytes) ==
    IF bytes = <<>> THEN <<>>
    ELSE <<Head(bytes) \div 16, Head(bytes) % 16>> \o HexEncode(Tail(bytes))

\* sessionHash[:16]: the slice expression panics when the string is shorter
SessionChunksDir(path) ==
    LET sessionHash == HexEncode(path) IN
    IF Len(sessionHash) < HexPrefixLen
    THEN [panic |-> TRUE, dir |-> <<>>]
    ELSE [panic |-> FALSE, dir |-> SubSeq(sessionHash, 1, HexPrefixLen)]

\* os.MkdirAll(sessionChunksDir)
MkdirAll(st, dir) == [st EXCEPT !.chunkDirs = st.chunkDirs \cup {dir}]

\* (mutant) the payload is appended to what is staged under the index
WriteChunk_Append(st, dir, chunkID, data) ==
    [st EXCEPT !.chunkFiles =
        MapPut(st.chunkFiles, <<dir, chunkID>>,
               (IF <<dir, chunkID>> \in DOMAIN st.chunkFiles
                THEN st.chunkFiles[<<dir, chunkID>>] ELSE <<>>) \o data)]

\* os.WriteFile(chunkPath, data): chunk_%06d.dat is one name per integer
WriteChunk(st, dir, chunkID, data) ==
    [st EXCEPT !.chunkFiles = MapPut(st.chunkFiles, <<dir, chunkID>>, data)]

\* os.RemoveAll(sessionChunksDir)
RemoveAll(st, dir) ==
    [st EXCEPT !.chunkDirs = st.chunkDirs \ {dir},
               !.chunkFiles = [k \in {x \in DOMAIN st.chunkFiles : x[1] # dir}
                                 |-> st.chunkFiles[k]]]

\* the loop of reassembleFromDisk: chunks 0..totalChunks-1 in order; the
\* first one that cannot be read ends it
RECURSIVE ReadChunks(_, _, _, _)
ReadChunks(st, dir, i, totalChunks) ==
    IF i >= totalChunks THEN [err |-> "none", data |-> <<>>]
    ELSE IF <<dir, i>> \notin DOMAIN st.chunkFiles
    THEN [err |-> "read chunk", data |-> <<>>]
    ELSE LET rest == ReadChunks(st, dir, i + 1, totalChunks) IN
         IF rest.err # "none" THEN rest
         ELSE [err |-> "none", data |-> st.chunkFiles[<<dir, i>>] \o rest.data]

\* (mutant) a failed reassembly removes the staging directory
reassembleFromDisk_CleansOnFailure(st, dir, remotePath, totalChunks, crashAt) ==
    LET tempName == Base(remotePath)
        s1 == [st EXCEPT !.tempFiles = st.tempFiles \cup {tempName}]
        read == ReadChunks(s1, dir, 0, totalChunks)
        stored == Put(s1, remotePath, read.data)
    IN IF crashAt = "fault.temp"
       THEN [st |-> RemoveAll(st, dir), err |-> "create temp", put |-> <<>>]
       ELSE IF read.err # "none"
       THEN [st |-> RemoveAll(s1, dir), err |-> read.err, put |-> <<>>]
       ELSE IF stored.err # "none" \/ crashAt = "fault.put"
       THEN [st |-> RemoveAll(s1, dir), err |-> "storage failed", put |-> <<>>]
       ELSE [st |-> [stored.st EXCEPT !.tempFiles = stored.st.tempFiles \ {tempName}],
             err |-> "none", put |-> <<[path |-> remotePath, data |-> read.data]>>]

\* err: "none" | "create temp" | "read chunk" | "storage failed" | "crash"
\* put: the (path, data) handed to storage.Put when it succeeded
reassembleFromDisk(st, dir, remotePath, totalChunks, crashAt) ==
    LET tempName == Base(remotePath)
        s1 == [st EXCEPT !.tempFiles = st.tempFiles \cup {tempName}]
        read == ReadChunks(s1, dir, 0, totalChunks)
        stored == Put(s1, remotePath, read.data)
    IN IF crashAt = "fault.temp" THEN [st |-> st, err |-> "create temp", put |-> <<>>]
       ELSE IF crashAt = "reassemble.temp" THEN [st |-> s1, err |-> "crash", put |-> <<>>]
       ELSE IF read.err # "none" THEN [st |-> s1, err |-> read.err, put |-> <<>>]
       ELSE IF stored.err # "none" \/ crashAt = "fault.put" THEN [st |-> s1, err |-> "storage failed", put |-> <<>>]
       ELSE IF crashAt = "put.trunc"
       THEN [st |-> Put(s1, remotePath, <<>>).st, err |-> "crash", put |-> <<>>]
       ELSE IF crashAt = "put.done"
       THEN [st |-> stored.st, err |-> "crash",
             put |-> <<[path |-> remotePath, data |-> read.data]>>]
       ELSE [st |-> [stored.st EXCEPT !.tempFiles = stored.st.tempFiles \ {tempName}],
             err |-> "none", put |-> <<[path |-> remotePath, data |-> read.data]>>]

\* What a request did, for the caller and for the history variables.
\*   kind: "ok" (200) | "session error" | "mkdir failed" | "write failed" |
\*         "mark failed" | "reassembly failed" (500) | "panic" (net/http recovers it and drops the connection;
\*         the deferred Unlock runs) | "crashed" (the process stopped)
Resp(st, kind, detail, created, markOk, put, deleted) ==
    [st |-> st, kind |-> kind, detail |-> detail,
     code |-> IF kind = "ok" THEN 200 ELSE IF kind \in {"panic", "crashed"} THEN 0 ELSE 500,
     created |-> created, markOk |-> markOk, put |-> put, deleted |-> deleted]

CrashPoints == {"create.save", "create.done", "chunk.trunc", "chunk.done",
                "mark.save", "mark.done", "reassemble.temp", "put.trunc",
                "put.done", "removeall.done"}

\* The system calls that can return an error to handleUpload. A call that
\* fails is taken to leave its target as it was.
Faults == {"fault.create.save", "fault.mkdir", "fault.chunk", "fault.mark.save",
           "fault.temp", "fault.put"}

\* handleUpload for a request whose body parsed, run to its end
\* (crashAt = "none"), until the process stops at crashAt (a crash point),
\* or with the system call named by crashAt failing (a fault)
handleUpload(st, req, crashAt) ==
    LET g == GetOrCreateSession(st, req.Path, req.Total, Len(req.Data), crashAt) IN
    IF g.err = "mismatch"
    THEN Resp(g.st, "session error", "mismatch", FALSE, FALSE, <<>>, FALSE)
    ELSE IF g.err = "panic"
    THEN Resp(g.st, "panic", "makeslice", FALSE, FALSE, <<>>, FALSE)
    ELSE IF g.err = "save"
    THEN Resp(g.st, "session error", "save", g.created, FALSE, <<>>, FALSE)
    ELSE IF g.err = "crash" \/ crashAt = "create.done"
    THEN Resp(g.st, "crashed", crashAt, g.created, FALSE, <<>>, FALSE)
    ELSE
    LET d == SessionChunksDir(req.Path) IN
    IF d.panic
    THEN Resp(g.st, "panic", "slice bounds", g.created, FALSE, <<>>, FALSE)
    ELSE IF crashAt = "fault.mkdir"
    THEN Resp(g.st, "mkdir failed", crashAt, g.created, FALSE, <<>>, FALSE)
    ELSE
    LET s1 == MkdirAll(g.st, d.dir) IN
    IF crashAt = "fault.chunk"
    THEN Resp(s1, "write failed", crashAt, g.created, FALSE, <<>>, FALSE)
    ELSE IF crashAt = "chunk.trunc"
    THEN Resp(WriteChunk(s1, d.dir, req.ChunkID, <<>>), "crashed", crashAt,
              g.created, FALSE, <<>>, FALSE)
    ELSE
    LET s2 == WriteChunk(s1, d.dir, req.ChunkID, req.Data) IN
    IF crashAt = "chunk.done"
    THEN Resp(s2, "crashed", crashAt, g.created, FALSE, <<>>, FALSE)
    ELSE
    LET m == MarkChunkReceived(s2, req.Path, req.ChunkID, crashAt) IN
    IF m.err = "crash"
    THEN Resp(m.st, "crashed", crashAt, g.created, FALSE, <<>>, FALSE)
    ELSE IF m.err # "none"
    THEN Resp(m.st, "mark failed", m.err, g.created, FALSE, <<>>, FALSE)
    ELSE IF crashAt = "mark.done"
    THEN Resp(m.st, "crashed", crashAt, g.created, TRUE, <<>>, FALSE)
    ELSE IF ~m.st.sessions[makeSessionID(req.Path)].Completed
    THEN Resp(m.st, "ok", "received", g.created, TRUE, <<>>, FALSE)
    ELSE
    LET r == reassembleFromDisk(m.st, d.dir, req.Path, req.Total, crashAt) IN
    IF r.err = "crash"
    THEN Resp(r.st, "crashed", crashAt, g.created, TRUE, r.put, FALSE)
    ELSE IF r.err # "none"
    THEN Resp(r.st, "reassembly failed", r.err, g.created, TRUE, <<>>, FALSE)
    ELSE
    LET s3 == RemoveAll(r.st, d.dir) IN
    IF crashAt = "removeall.done"
    THEN Resp(s3, "crashed", crashAt, g.created, TRUE, r.put, FALSE)
    ELSE Resp(DeleteSession(s3, req.Path), "ok", "stored", g.created, TRUE, r.put, TRUE)

\* handleUploadStatus: 400 without a path, else the UploadStatusResponse
handleUploadStatus(st, path) ==
    IF path = <<>>
    THEN [code |-> 400, Exists |-> FALSE, TotalChunks |-> 0, ReceivedMap |-> <<>>,
          MissingChunks |-> <<>>, Completed |-> FALSE]
    ELSE LET g == GetSession(st, path) IN
         IF ~g.exists
         THEN [code |-> 200, Exists |-> FALSE, TotalChunks |-> 0, ReceivedMap |-> <<>>,
               MissingChunks |-> <<>>, Completed |-> FALSE]
         ELSE LET missing == GetMissingChunks(st, path) IN
              [code |-> IF missing.err = "none" THEN 200 ELSE 500, Exists |-> TRUE,
               TotalChunks |-> g.session[1].TotalChunks,
               ReceivedMap |-> g.session[1].ReceivedMap,
               MissingChunks |-> missing.missing,
               Completed |-> g.session[1].Completed]

\* New: the session store is rebuilt from metaDir; chunksDir is created
New(st) == NewSessionStore(st)

-----------------------------------------------------------------------------
(* pkg/chunk/chunk.go *)

\* Bounds of the chunk inputs
MaxBuf == 4
MaxChunkSize == 3
MaxChunks == 2

\* the length of a hex-encoded SHA-256 digest, and the most characters other
\* than '0' a checksum may have to count as a fallback checksum
DigestHexLen == 64
FallbackNonZero == 16

\* lowercase hexadecimal digit (48 is '0', 97 is 'a')
HexChar(n) == IF n < 10 THEN 48 + n ELSE 87 + n

\* A stand-in for sha256.Sum256: a number that differs for any two of the
\* buffers the model uses.
RECURSIVE Mix(_)
Mix(data) ==
    IF data = <<>> THEN 1
    ELSE (Head(data) + 1 + 257 * Mix(Tail(data))) % 65521

\* hex.EncodeToString(hash[:]): 64 hexadecimal digits. The stand-in writes
\* the number in the first four digits and fills the rest with digits other
\* than '0', as a real digest has far more than 16 of them.
EncodeToString(m) ==
    [k \in 1..DigestHexLen |->
        HexChar(IF k <= 4 THEN (m \div (16 ^ (k - 1))) % 16
                ELSE 1 + ((m + k) % 15))]

Sum256Hex(data) == EncodeToString(Mix(data))

\* chunk.New
NewChunker(size) == [Size |-> IF size <= 0 THEN 1024 * 1024 ELSE size]

\* (mutant) a piece shorter than the chunk size is left out
SplitFrom_DropShort(c, data, i, chunks) ==
    LET end == IF i + c.Size > Len(data) THEN Len(data) ELSE i + c.Size
        chunkData == SubSeq(data, i + 1, end)
    IN IF Len(chunkData) < c.Size THEN chunks
       ELSE Append(chunks, [ID |-> Len(chunks), Data |-> chunkData,
                            Checksum |-> Sum256Hex(chunkData)])

\* (mutant) the piece's index is its byte offset
SplitFrom_OffsetAsID(c, data, i, chunks) ==
    LET end == IF i + c.Size > Len(data) THEN Len(data) ELSE i + c.Size
        chunkData == SubSeq(data, i + 1, end)
    IN Append(chunks, [ID |-> i, Data |-> chunkData,
                       Checksum |-> Sum256Hex(chunkData)])

\* one turn of Split's loop: the piece data[i:end] is appended
SplitFrom(c, data, i, chunks) ==
    LET end == IF i + c.Size > Len(data) THEN Len(data) ELSE i + c.Size
        chunkData == SubSeq(data, i + 1, end)
    IN Append(chunks, [ID |-> Len(chunks), Data |-> chunkData,
                       Checksum |-> Sum256Hex(chunkData)])

\* the loop of Split: for i := 0; i < totalSize; i += c.Size
RECURSIVE SplitLoop(_, _, _, _)
SplitLoop(c, data, i, chunks) ==
    IF i >= Len(data) THEN chunks
    ELSE SplitLoop(c, data, i + c.Size, SplitFrom(c, data, i, chunks))

\* Chunker.Split
Split(c, data) == SplitLoop(c, data, 0, <<>>)

NonZeroCount(checksum) ==
    Cardinality({j \in 1..Len(checksum) : checksum[j] # 48})

\* (mutant) a chunk before its place is let through
Verify_OrderAtLeast(chunk, i) ==
    IF chunk.ID > i THEN "order"
    ELSE IF Len(chunk.Checksum) = DigestHexLen /\ chunk.Checksum # Sum256Hex(chunk.Data)
    THEN IF NonZeroCount(chunk.Checksum) > FallbackNonZero THEN "mismatch"
         ELSE "fallback"
    ELSE "ok"

\* the body of Reassemble's loop for the chunk at position i (from 0)
Verify(chunk, i) ==
    IF chunk.ID # i THEN "order"
    ELSE IF Len(chunk.Checksum) = DigestHexLen /\ chunk.Checksum # Sum256Hex(chunk.Data)
    THEN IF NonZeroCount(chunk.Checksum) > FallbackNonZero THEN "mismatch"
         ELSE "fallback"
    ELSE "ok"

\* Reassemble's loop from position i on; warned lists the positions a
\* warning was printed for
RECURSIVE ReassembleFrom(_, _, _, _)
ReassembleFrom(chunks, i, result, warned) ==
    IF i >= Len(chunks)
    THEN [err |-> "none", at |-> i, data |-> result, warned |-> warned]
    ELSE IF Verify(chunks[i + 1], i) \in {"order", "mismatch"}
    THEN [err |-> Verify(chunks[i + 1], i), at |-> i, data |-> <<>>,
          warned |-> warned]
    ELSE ReassembleFrom(chunks, i + 1, result \o chunks[i + 1].Data,
                        IF Verify(chunks[i + 1], i) = "fallback"
                        THEN Append(warned, i) ELSE warned)

\* Chunker.Reassemble
ChunkerReassemble(chunks) == ReassembleFrom(chunks, 0, <<>>, <<>>)

NoResult == [err |-> "unset", at |-> -1, data |-> <<>>, warned |-> <<>>]

\* nothing has been given to the package
IdleCodec == [pc |-> "idle", origin |-> "none", c |-> NewChunker(0),
              data |-> <<>>, chunks |-> <<>>, out |-> NoResult]

-----------------------------------------------------------------------------
(* pkg/auth (token.go, challenge.go, middleware.go) and the admin tool.    *)
(* A string is a sequence of atoms: a word or a separator character is the *)
(* atom [lit |-> ...], the hex text of a MAC is the atom [mac |-> ...].    *)

\* SHA-256 of a byte string, not computed: the digest "of" its argument,
\* taken to be collision-free on the strings of the model
Sha256(data) == [sha256 |-> data]

W(s) == [lit |-> s]
Str(s) == <<W(s)>>
SP == W(" ")
SEMI == W(";")

\* the lifetime of a challenge (5 minutes) in ticks of the clock
ChallengeTTL == 1

\* strings.HasPrefix, strings.TrimPrefix
HasPrefix(s, prefix) ==
    Len(s) >= Len(prefix) /\ SubSeq(s, 1, Len(prefix)) = prefix
TrimPrefix(s, prefix) ==
    IF HasPrefix(s, prefix) THEN SubSeq(s, Len(prefix) + 1, Len(s)) ELSE s

\* strings.Split: parts holds the pieces cut so far, the last one open
RECURSIVE SplitAcc(_, _, _)
SplitAcc(s, sep, parts) ==
    IF s = <<>> THEN parts
    ELSE SplitAcc(Tail(s), sep,
                  IF Head(s) = sep THEN Append(parts, <<>>)
                  ELSE [parts EXCEPT ![Len(parts)] = Append(@, Head(s))])

StringsSplit(s, sep) == SplitAcc(s, sep, << <<>> >>)

\* strings.SplitN(s, sep, 2)
SplitN2(s, sep) ==
    IF \A i \in 1..Len(s) : s[i] # sep THEN <<s>>
    ELSE LET i == CHOOSE k \in 1..Len(s) :
                    s[k] = sep /\ \A j \in 1..(k - 1) : s[j] # sep
         IN <<SubSeq(s, 1, i - 1), SubSeq(s, i + 1, Len(s))>>

\* hex(HMAC-SHA256(key, msg)): not computed, written as the MAC "of" its
\* arguments
HmacHex(key, msg) == <<[mac |-> <<key, msg>>]>>

\* json.Marshal / json.Unmarshal of a Token: the fields under their tags
MarshalToken(t) ==
    [id |-> t.ID, token_hash |-> t.TokenHash, user |-> t.User,
     permissions |-> t.Permissions, created_at |-> t.CreatedAt,
     expires_at |-> t.ExpiresAt, revoked |-> t.Revoked]
UnmarshalToken(d) ==
    [ID |-> d.id, TokenHash |-> d.token_hash, User |-> d.user,
     Permissions |-> d.permissions, CreatedAt |-> d.created_at,
     ExpiresAt |-> d.expires_at, Revoked |-> d.revoked]

\* the token file: missing, or the documents of its "tokens" array
NoFile == [exists |-> FALSE, tokens |-> <<>>]

\* TokenStore.Load: a missing file leaves the map as it is, otherwise the
\* map is rebuilt, a later token replacing an earlier one of the same hash
Load(file, tokens) ==
    IF ~file.exists THEN tokens
    ELSE [h \in {file.tokens[i].token_hash : i \in 1..Len(file.tokens)} |->
            UnmarshalToken(file.tokens[
                CHOOSE i \in 1..Len(file.tokens) :
                    /\ file.tokens[i].token_hash = h
                    /\ \A j \in (i + 1)..Len(file.tokens) :
                            file.tokens[j].token_hash # h])]

\* NewTokenStore
NewTokenStore(file) == Load(file, EmptyMap)

\* revokeCommand of the admin tool: the first token of the file with the ID
\* is marked revoked and the file is written back
revokeCommand(file, tokenID) ==
    IF \A i \in 1..Len(file.tokens) : file.tokens[i].id # tokenID
    THEN [file |-> file, found |-> FALSE]
    ELSE LET i == CHOOSE k \in 1..Len(file.tokens) :
                    /\ file.tokens[k].id = tokenID
                    /\ \A j \in 1..(k - 1) : file.tokens[j].id # tokenID
         IN [file |-> [file EXCEPT !.tokens[i].revoked = TRUE], found |-> TRUE]

NoToken == [found |-> FALSE]

\* TokenStore.GetTokenByID: the token of the map with the ID (IDs are unique
\* in the map), unless it is revoked or expired
GetTokenByID(a, tokenID) ==
    LET ts == a.tokens
        hs == {h \in DOMAIN ts : ts[h].ID = tokenID}
    IN IF hs = {} THEN NoToken
       ELSE LET token == ts[CHOOSE h \in hs : TRUE] IN
            IF token.Revoked \/ a.now > token.ExpiresAt THEN NoToken
            ELSE [found |-> TRUE, token |-> token]

\* (mutant) an expired token is still valid
Validate_IgnoreExpiry(a, tokenStr) ==
    LET ts == a.tokens
        tokenHash == Sha256(tokenStr)
    IN IF tokenHash \notin DOMAIN ts THEN [err |-> "invalid token"]
       ELSE IF ts[tokenHash].Revoked THEN [err |-> "token has been revoked"]
       ELSE [err |-> "none", user |-> ts[tokenHash].User,
             permissions |-> ts[tokenHash].Permissions]

\* TokenStore.Validate
Validate(a, tokenStr) ==
    LET ts == a.tokens
        tokenHash == Sha256(tokenStr)
    IN IF tokenHash \notin DOMAIN ts THEN [err |-> "invalid token"]
       ELSE IF ts[tokenHash].Revoked THEN [err |-> "token has been revoked"]
       ELSE IF a.now > ts[tokenHash].ExpiresAt THEN [err |-> "token has expired"]
       ELSE [err |-> "none", user |-> ts[tokenHash].User,
             permissions |-> ts[tokenHash].Permissions]

\* HasPermission
HasPermission(permissions, required) ==
    \E i \in 1..Len(permissions) :
        permissions[i] = required \/ permissions[i] = Str("*")

\* ChallengeStore.GenerateChallenge with the nonce rand.Read gave
GenerateChallenge(a, nonce) ==
    [a EXCEPT !.challenges = MapPut(@, nonce, a.now + ChallengeTTL)]

\* ChallengeStore.ValidateResponse: the nonce must be known and not expired;
\* it is deleted in both cases where it is known
ValidateResponse(a, nonce, response, token) ==
    IF nonce \notin DOMAIN a.challenges
    THEN [a |-> a, valid |-> FALSE, err |-> "invalid or expired nonce"]
    ELSE IF a.now > a.challenges[nonce]
    THEN [a |-> [a EXCEPT !.challenges = MapDel(@, nonce)], valid |-> FALSE,
          err |-> "challenge expired"]
    ELSE [a |-> [a EXCEPT !.challenges = MapDel(@, nonce)],
          valid |-> response = HmacHex(token, nonce), err |-> "none"]

\* ChallengeStore.cleanupExpired, one turn of its ticker
cleanupExpired(a) ==
    [a EXCEPT !.challenges =
        [n \in {m \in DOMAIN @ : ~(a.now > @[m])} |-> @[n]]]

\* an answer of the middleware: the status written, whether next was called
Answer(a, code, ran, user) == [a |-> a, code |-> code, ran |-> ran, user |-> user]

\* RequireAuth, the branch of the "Challenge <response>;<nonce>;<token_id>"
\* header, up to the permission check
ChallengeAuth(a, parts) ==
    IF Len(parts) # 3 THEN [a |-> a, err |-> "format"]
    ELSE IF ~GetTokenByID(a, parts[3]).found THEN [a |-> a, err |-> "token id"]
    ELSE IF ValidateResponse(a, parts[2], parts[1],
                             GetTokenByID(a, parts[3]).token.TokenHash).err # "none"
    THEN [a |-> ValidateResponse(a, parts[2], parts[1],
                                 GetTokenByID(a, parts[3]).token.TokenHash).a,
          err |-> "challenge"]
    ELSE [a |-> ValidateResponse(a, parts[2], parts[1],
                                 GetTokenByID(a, parts[3]).token.TokenHash).a,
          err |-> IF parts[1] = HmacHex(GetTokenByID(a, parts[3]).token.TokenHash,
                                        parts[2])
                  THEN "none" ELSE "response",
          user |-> GetTokenByID(a, parts[3]).token.User,
          permissions |-> GetTokenByID(a, parts[3]).token.Permissions]

\* RequireAuth, the branch of the "Bearer <token>" header
BearerAuth(a, parts) ==
    IF Len(parts) # 2 \/ parts[1] # Str("Bearer") THEN [a |-> a, err |-> "format"]
    ELSE IF Validate(a, parts[2]).err # "none" THEN [a |-> a, err |-> "validate"]
    ELSE [a |-> a, err |-> "none", user |-> Validate(a, parts[2]).user,
          permissions |-> Validate(a, parts[2]).permissions]

\* RequireAuth, from the credential that was accepted to the call of next
Permit(cred, requiredPermission) ==
    IF cred.err # "none" THEN Answer(cred.a, 401, FALSE, <<>>)
    ELSE IF requiredPermission # <<>>
            /\ ~HasPermission(cred.permissions, requiredPermission)
    THEN Answer(cred.a, 403, FALSE, <<>>)
    ELSE Answer(cred.a, 200, TRUE, cred.user)

\* Middleware.RequireAuth(requiredPermission, next) serving a request with
\* the Authorization header authHeader (empty when there is none)
RequireAuth(a, requiredPermission, authHeader) ==
    IF authHeader = <<>> THEN Answer(a, 401, FALSE, <<>>)
    ELSE IF HasPrefix(authHeader, <<W("Challenge"), SP>>)
    THEN Permit(ChallengeAuth(a, StringsSplit(TrimPrefix(authHeader,
                                                  <<W("Challenge"), SP>>), SEMI)),
                requiredPermission)
    ELSE Permit(BearerAuth(a, SplitN2(authHeader, SP)), requiredPermission)

NoAnswer == [op |-> "none", code |-> 0, ran |-> FALSE]

\* no token file, no server
IdleAuth == [file |-> NoFile, tokens |-> EmptyMap, challenges |-> EmptyMap,
             now |-> 0, ops |-> 0, out |-> NoAnswer]

-----------------------------------------------------------------------------
(* History variables *)

Last(op, kind, detail) == [op |-> op, kind |-> kind, detail |-> detail]

\* marked after a request for path: a new session starts empty, a successful
\* MarkChunkReceived adds its index, the session's deletion empties the set
MarkedAfter(m, path, chunkID, created, markOk, deleted) ==
    LET base == IF created THEN {} ELSE m[path] IN
    [m EXCEPT ![path] = IF deleted THEN {}
                        ELSE IF markOk THEN base \cup {chunkID} ELSE base]

\* the goroutines that net/http runs for requests to /upload
Handlers == 1..2

\* pc: "idle" | "waiting" (body parsed, before s.mu.Lock()) | "locked"
\*     (s.mu held) | "reassembling" (the session was found completed) |
\*     "cleaning" (reassembleFromDisk returned nil)
IdleHandler == [pc |-> "idle", req |-> <<>>]

\* sync.RWMutex: nobody holds it
FreeLock == [w |-> {}, r |-> {}]

\* pc: "idle" | "waiting" (called, before s.mu.Lock()) | "locked"
IdleSweeper == [pc |-> "idle", maxAge |-> 0, runs |-> 0]

\* pc: "idle" | "got" (GetSession has returned) | "done" (answered)
\* obj: the *UploadSession that GetSession returned; total, bitmap,
\* completed, missing: the fields of the response
IdleStatus == [pc |-> "idle", path |-> <<>>, exists |-> FALSE, code |-> 0,
               missing |-> <<>>, obj |-> <<>>, total |-> 0, bitmap |-> <<>>,
               completed |-> FALSE]

-----------------------------------------------------------------------------
(* The server: one upload request at a time (handleUpload holds s.mu) *)

InitServer ==
    /\ sessions = EmptyMap
    /\ metaFiles = EmptyMap
    /\ chunkDirs = {}
    /\ chunkFiles = EmptyMap
    /\ tempFiles = {}
    /\ storageFiles = EmptyMap
    /\ storageDirs = Prefixes(RootDir)
    /\ now = 0
    /\ served = 0
    /\ last = Last("none", "none", "none")
    /\ marked = [p \in Paths |-> {}]
    /\ mu = 0
    /\ handlers = [h \in Handlers |-> IdleHandler]
    /\ statusReq = IdleStatus
    /\ storeMu = FreeLock
    /\ sweeper = IdleSweeper

Init ==
    /\ InitServer
    /\ codec = IdleCodec
    /\ auth = IdleAuth

Upload(req) ==
    /\ served < MaxRequests
    /\ LET r == handleUpload(Cur, req, "none") IN
        /\ Install(r.st)
        /\ last' = Last("upload", r.kind, r.detail)
        /\ marked' = MarkedAfter(marked, req.Path, req.ChunkID, r.created, r.markOk,
                                 r.deleted)

Next == \E req \in Requests : Upload(req)

Spec == Init /\ [][Next]_vars

-----------------------------------------------------------------------------
(* The server with process crashes: the process stops at a crash point of  *)
(* handleUpload and is started again (New) from what is on disk            *)

CrashDuringUpload(req, crashAt) ==
    /\ served < MaxRequests
    /\ LET r == handleUpload(Cur, req, crashAt) IN
        /\ r.kind = "crashed"
        /\ Install(New(r.st))
        /\ last' = Last("upload", r.kind, r.detail)
        /\ marked' = MarkedAfter(marked, req.Path, req.ChunkID, r.created, r.markOk,
                                 r.deleted)

Restart ==
    /\ served < MaxRequests
    /\ Install(New(Cur))
    /\ last' = Last("restart", "none", "none")
    /\ UNCHANGED marked

NextCrash ==
    \/ \E req \in Requests : Upload(req)
    \/ \E req \in Requests, c \in CrashPoints : CrashDuringUpload(req, c)
    \/ Restart

SpecCrash == Init /\ [][NextCrash]_vars

-----------------------------------------------------------------------------
(* The server with failing system calls: one call of a request returns an  *)
(* error and the handler answers with the fault                            *)

UploadWithFault(req, fault) ==
    /\ served < MaxRequests
    /\ LET r == handleUpload(Cur, req, fault) IN
        /\ r.detail \in {fault, "save", "create temp", "storage failed"}
        /\ r.code = 500
        /\ Install(r.st)
        /\ last' = Last("upload", r.kind, r.detail)
        /\ marked' = MarkedAfter(marked, req.Path, req.ChunkID, r.created, r.markOk,
                                 r.deleted)

NextFault ==
    \/ \E req \in Requests : Upload(req)
    \/ \E req \in Requests, f \in Faults : UploadWithFault(req, f)

SpecFault == Init /\ [][NextFault]_vars

-----------------------------------------------------------------------------
(* The session store driven through its own API *)

ChunkSizes == {1, 2}
MaxAges == {0, 1, 3}

StoreGetOrCreate(path, totalChunks, chunkSize) ==
    /\ served < MaxStoreOps
    /\ LET g == GetOrCreateSession(Cur, path, totalChunks, chunkSize, "none") IN
        /\ Install(g.st)
        /\ last' = Last("getOrCreate", g.err, IF g.created THEN "created" ELSE "found")
        /\ marked' = MarkedAfter(marked, path, 0, g.created, FALSE, FALSE)

StoreMark(path, chunkID) ==
    /\ served < MaxStoreOps
    /\ LET m == MarkChunkReceived(Cur, path, chunkID, "none") IN
        /\ Install(m.st)
        /\ last' = Last("markReceived", m.err, "none")
        /\ marked' = MarkedAfter(marked, path, chunkID, FALSE, m.err = "none", FALSE)

StoreDelete(path) ==
    /\ served < MaxStoreOps
    /\ Install(DeleteSession(Cur, path))
    /\ last' = Last("delete", "none", "none")
    /\ marked' = MarkedAfter(marked, path, 0, FALSE, FALSE, TRUE)

StoreCleanup(maxAge) ==
    /\ served < MaxStoreOps
    /\ LET st == CleanupOldSessions(Cur, maxAge) IN
        /\ Install(st)
        /\ last' = Last("cleanup", "none",
                        IF DOMAIN st.sessions = DOMAIN sessions THEN "kept"
                        ELSE "removed")
        /\ marked' = [p \in Paths |->
                        IF makeSessionID(p) \in DOMAIN st.sessions THEN marked[p] ELSE {}]

StoreRestart ==
    /\ served < MaxStoreOps
    /\ Install(NewSessionStore(Cur))
    /\ last' = Last("restart", "none", "none")
    /\ UNCHANGED marked

NextStore ==
    \/ \E p \in Paths, t \in Totals, c \in ChunkSizes : StoreGetOrCreate(p, t, c)
    \/ \E p \in Paths, i \in Indices : StoreMark(p, i)
    \/ \E p \in Paths : StoreDelete(p)
    \/ \E a \in MaxAges : StoreCleanup(a)
    \/ StoreRestart

SpecStore == Init /\ [][NextStore]_vars

-----------------------------------------------------------------------------
(* What a client sees and sends *)

SessionOf(st, path) == st.sessions[makeSessionID(path)]
HasSession(st, path) == makeSessionID(path) \in DOMAIN st.sessions

ChunkReq(path, chunkID, total, data) ==
    [Path |-> path, ChunkID |-> chunkID, Total |-> total, Data |-> data]

\* the orders in which the indices 0..n-1 can arrive
Orders(n) == {o \in [1..n -> 0..(n - 1)] : \A i, j \in 1..n : o[i] = o[j] => i = j}

\* submit the chunks order[k], order[k+1], ... of an upload of total chunks,
\* chunk i carrying pay[i], each request run to its end
RECURSIVE SubmitAll(_, _, _, _, _, _)
SubmitAll(st, path, total, order, pay, k) ==
    IF k > Len(order) THEN st
    ELSE SubmitAll(handleUpload(st, ChunkReq(path, order[k], total, pay[order[k]]),
                                "none").st,
                   path, total, order, pay, k + 1)

\* pay[i] \o pay[i+1] \o ... \o pay[total-1]
RECURSIVE ConcatFrom(_, _, _)
ConcatFrom(pay, i, total) ==
    IF i >= total THEN <<>> ELSE pay[i] \o ConcatFrom(pay, i + 1, total)

\* no upload is in flight: no session and nothing staged
Idle(st) == st.sessions = EmptyMap /\ st.chunkFiles = EmptyMap

-----------------------------------------------------------------------------
(* C1 *)

\* C1: for every destination path and every total N >= 1, with no other
\* upload in flight, submitting the N chunks in any arrival order leaves
\* under the path the concatenation of the payloads in index order, and the
\* status query then reports exists = false.
C1_AnyOrderStoresArtifact ==
    Idle(Cur) =>
        \A path \in Paths, total \in 1..MaxTotal :
            \A order \in Orders(total), pay \in [0..(total - 1) -> Payloads] :
                LET final == SubmitAll(Cur, path, total, order, pay, 1) IN
                /\ Get(final, path) = [err |-> "none", data |-> ConcatFrom(pay, 0, total)]
                /\ ~handleUploadStatus(final, path).Exists

-----------------------------------------------------------------------------
(* C2 *)

\* the client's resume: it sends the chunks missing[k], missing[k+1], ...
RECURSIVE Resend(_, _, _, _, _, _)
Resend(st, path, total, missing, pay, k) ==
    IF k > Len(missing) THEN st
    ELSE Resend(handleUpload(st, ChunkReq(path, missing[k], total, pay[missing[k]]),
                             "none").st,
                path, total, missing, pay, k + 1)

Range(seq) == {seq[i] : i \in 1..Len(seq)}

\* the file the client is uploading, as far as the server can tell: the
\* staged chunk for an index recorded as received, the resent payload for a
\* missing one
RECURSIVE ExpectedFrom(_, _, _, _, _, _)
ExpectedFrom(st, dir, missing, pay, i, total) ==
    IF i >= total THEN <<>>
    ELSE (IF i \in Range(missing) THEN pay[i]
          ELSE IF <<dir, i>> \in DOMAIN st.chunkFiles THEN st.chunkFiles[<<dir, i>>]
          ELSE <<>>)
         \o ExpectedFrom(st, dir, missing, pay, i + 1, total)

\* C2: when the server has stopped at some point of a receiveChunk request
\* and has been started again, a client that queries the status and resends
\* exactly the missing indices gets the complete artifact stored under the
\* path. (Stated for paths of at least 8 bytes, for which handleUpload does
\* not panic, and for sessions of at least one chunk.)
C2_ResumeAfterCrashStoresArtifact ==
    last.kind = "crashed" =>
        \A path \in Paths :
            LET status == handleUploadStatus(Cur, path)
                d == SessionChunksDir(path)
            IN (status.Exists /\ status.TotalChunks >= 1 /\ ~d.panic) =>
                \A pay \in [Range(status.MissingChunks) -> Payloads] :
                    LET final == Resend(Cur, path, status.TotalChunks,
                                        status.MissingChunks, pay, 1)
                    IN Get(final, path) =
                         [err |-> "none",
                          data |-> ExpectedFrom(Cur, d.dir, status.MissingChunks, pay, 0,
                                                status.TotalChunks)]

-----------------------------------------------------------------------------
(* C3 *)

\* req carries the one chunk its path's session still misses
FinalMissing(st, req) ==
    /\ HasSession(st, req.Path)
    /\ SessionOf(st, req.Path).TotalChunks = req.Total
    /\ ~SessionOf(st, req.Path).Completed
    /\ GetMissingChunks(st, req.Path).missing = <<req.ChunkID>>

\* C3: submitting the final missing chunk of a session completes it and
\* writes exactly one artifact to storage, after which the session is gone;
\* submitting that chunk again starts a fresh session and writes nothing of
\* the finished upload again (a second write can only be the one-chunk
\* upload that the resubmitted payload makes up by itself).
C3_FinalChunkStoresOnce ==
    \A req \in Requests :
        FinalMissing(Cur, req) =>
            LET first == handleUpload(Cur, req, "none")
                again == handleUpload(first.st, req, "none")
            IN /\ first.kind = "ok"
               /\ first.markOk
               /\ Len(first.put) = 1
               /\ first.deleted
               /\ ~HasSession(first.st, req.Path)
               /\ again.created
               /\ \/ again.put = <<>>
                  \/ req.Total = 1 /\ again.put = <<[path |-> req.Path, data |-> req.Data]>>

-----------------------------------------------------------------------------
(* C4 *)

\* C4: for a session of total N in which the indices of a set S have been
\* marked received (in any order, some more than once), missingChunks
\* returns the indices of 0..N-1 outside S, each once, in ascending order.
C4_MissingIsComplement ==
    \A path \in Paths :
        HasSession(Cur, path) =>
            GetMissingChunks(Cur, path) =
                [err |-> "none",
                 missing |-> SeqOfSet((0..(SessionOf(Cur, path).TotalChunks - 1))
                                      \ marked[path])]

\* a strict, non-empty subset has been marked, the last mark succeeded
C4_Witness ==
    \E path \in Paths :
        /\ HasSession(Cur, path)
        /\ marked[path] # {}
        /\ marked[path] # 0..(SessionOf(Cur, path).TotalChunks - 1)
        /\ last = Last("markReceived", "none", "none")

-----------------------------------------------------------------------------
(* C5 *)

\* C5: a session store built from the persistence directory alone holds the
\* sessions the in-memory store holds, with the same path, total, bitmap and
\* completed flag, so missingChunks is the same for every path.
C5_ReloadEqualsMemory ==
    LET reloaded == NewSessionStore(Cur) IN
    /\ DOMAIN reloaded.sessions = DOMAIN sessions
    /\ \A id \in DOMAIN sessions :
         /\ reloaded.sessions[id].Path = sessions[id].Path
         /\ reloaded.sessions[id].TotalChunks = sessions[id].TotalChunks
         /\ reloaded.sessions[id].ReceivedMap = sessions[id].ReceivedMap
         /\ reloaded.sessions[id].Completed = sessions[id].Completed
    /\ \A path \in Paths : GetMissingChunks(reloaded, path) = GetMissingChunks(Cur, path)

\* a session with a partly set bitmap, right after a successful mark
C5_Witness ==
    \E path \in Paths :
        /\ HasSession(Cur, path)
        /\ \E i \in 1..SessionOf(Cur, path).TotalChunks : SessionOf(Cur, path).ReceivedMap[i]
        /\ ~SessionOf(Cur, path).Completed
        /\ last = Last("markReceived", "none", "none")

-----------------------------------------------------------------------------
(* C6 *)

\* what a restart at this point would load
Reloaded == loadSessions(metaFiles)
ReloadedHas(path, chunkID) ==
    /\ makeSessionID(path) \in DOMAIN Reloaded
    /\ LET s == Reloaded[makeSessionID(path)] IN
        /\ chunkID + 1 \in 1..Len(s.ReceivedMap)
        /\ s.ReceivedMap[chunkID + 1]

\* C6: every chunk whose MarkChunkReceived returned success, and whose
\* session has not been removed by a reassembly since, is set in the bitmap
\* of the session that a restart loads, whatever crash came in between.
C6_AckedChunkSurvivesCrash ==
    \A p \in Paths : \A i \in marked[p] : ReloadedHas(p, i)

-----------------------------------------------------------------------------
(* C7 *)

\* C7: when a session exists for the path with a total other than the one
\* the request declares, GetOrCreateSession fails with the mismatch error,
\* the request is answered with the session error, and neither changes
\* anything: sessions, timestamps, metadata files and staged chunks stay.
C7_MismatchRejected ==
    \A req \in Requests :
        (HasSession(Cur, req.Path) /\ SessionOf(Cur, req.Path).TotalChunks # req.Total)
        => /\ GetOrCreateSession(Cur, req.Path, req.Total, Len(req.Data), "none")
                = [st |-> Cur, err |-> "mismatch", created |-> FALSE]
           /\ LET r == handleUpload(Cur, req, "none") IN
               /\ r.kind = "session error" /\ r.detail = "mismatch" /\ r.code = 500
               /\ r.st = Cur

\* a request has just been refused for its total while sessions exist
C7_Witness ==
    /\ last = Last("upload", "session error", "mismatch")
    /\ \E p \in Paths : HasSession(Cur, p) /\ marked[p] # {}

-----------------------------------------------------------------------------
(* C8 *)

\* the bitmaps of the sessions, and the staged data
Bitmaps(st) ==
    [id \in DOMAIN st.sessions |->
        [TotalChunks |-> st.sessions[id].TotalChunks,
         ReceivedMap |-> st.sessions[id].ReceivedMap,
         Completed |-> st.sessions[id].Completed]]
SameUploadState(s1, s2) ==
    /\ Bitmaps(s1) = Bitmaps(s2)
    /\ s1.chunkFiles = s2.chunkFiles /\ s1.chunkDirs = s2.chunkDirs
    /\ s1.storageFiles = s2.storageFiles

Once(req) == handleUpload(Cur, req, "none")
Twice(req) == handleUpload(Once(req).st, req, "none")

\* the first submission stored the artifact of an upload of several chunks
CompletesLarger(req) == Once(req).deleted /\ req.Total >= 2

\* a fresh session for the path in which only this chunk is received and
\* staged, next to what the first submission left
FreshSessionWith(req) ==
    LET before == Once(req).st
        after == Twice(req)
        d == SessionChunksDir(req.Path).dir
    IN /\ after.kind = "ok" /\ after.created /\ after.put = <<>>
       /\ HasSession(after.st, req.Path)
       /\ SessionOf(after.st, req.Path).ReceivedMap
            = [i \in 1..req.Total |-> i = req.ChunkID + 1]
       /\ ~SessionOf(after.st, req.Path).Completed
       /\ after.st.chunkFiles = MapPut(before.chunkFiles, <<d, req.ChunkID>>, req.Data)
       /\ after.st.storageFiles = before.storageFiles

\* C8 (as stated): for every path, index and payload, the last missing index
\* included, submitting the same chunk twice in a row leaves the bitmaps and
\* the staged data as submitting it once does.
C8_TwiceAsOnce ==
    \A req \in Requests : SameUploadState(Twice(req).st, Once(req).st)

\* C8 (amended): submitting the same chunk twice in a row leaves the bitmaps,
\* the staged data and the stored artifacts as submitting it once does,
\* except when the first submission completes and stores an upload of two or
\* more chunks: the second then opens a fresh session for the path in which
\* that index alone is received and staged, and stores nothing.
C8_TwiceAsOnceUnlessCompleted ==
    \A req \in Requests :
        IF CompletesLarger(req)
        THEN FreshSessionWith(req)
        ELSE SameUploadState(Twice(req).st, Once(req).st)

\* a chunk has been received and staged for an upload of two chunks: its
\* retry is accepted, and the other chunk is the last one missing
C8_Witness ==
    \E p \in Paths, i \in 0..1 :
        /\ HasSession(Cur, p) /\ SessionOf(Cur, p).TotalChunks = 2
        /\ marked[p] = {i}
        /\ last = Last("upload", "ok", "received")
        /\ \E data \in Payloads :
            /\ ~SessionChunksDir(p).panic
            /\ <<SessionChunksDir(p).dir, i>> \in DOMAIN chunkFiles
            /\ chunkFiles[<<SessionChunksDir(p).dir, i>>] = data
            /\ Once(ChunkReq(p, i, 2, data)).kind = "ok"
            /\ SameUploadState(Once(ChunkReq(p, i, 2, data)).st, Cur)
            /\ CompletesLarger(ChunkReq(p, 1 - i, 2, data))
            /\ Twice(ChunkReq(p, 1 - i, 2, data)).created

-----------------------------------------------------------------------------
(* C9 *)

\* the chunk index lies outside [0, total), or the total is not positive
ClientFault(req) ==
    req.ChunkID < 0 \/ req.ChunkID >= req.Total \/ req.Total <= 0

\* C9: a request whose index lies outside [0, total) or whose total is not
\* positive changes nothing: no session appears, no bitmap and no metadata
\* file changes, no chunk file is staged, with or without a session for the
\* path.
C9_ClientFaultMutatesNothing ==
    \A req \in Requests :
        ClientFault(req) =>
            LET st == handleUpload(Cur, req, "none").st IN
            /\ st.sessions = sessions /\ st.metaFiles = metaFiles
            /\ st.chunkDirs = chunkDirs /\ st.chunkFiles = chunkFiles

-----------------------------------------------------------------------------
(* C10 *)

\* the chunk files staged under the directory of the path's session
StagedFor(st, path) ==
    LET d == SessionChunksDir(path) IN
    IF d.panic THEN EmptyMap
    ELSE [k \in {x \in DOMAIN st.chunkFiles : x[1] = d.dir} |-> st.chunkFiles[k]]

\* C10: staging is per session: a request for one path never overwrites or
\* deletes a chunk file staged for another path's session, so what is staged
\* for every other session is the same after the request as before it.
C10_OtherSessionUntouched ==
    \A req \in Requests : \A q \in Paths \ {req.Path} :
        (HasSession(Cur, q) /\ marked[q] # {})
        => StagedFor(handleUpload(Cur, req, "none").st, q) = StagedFor(Cur, q)

-----------------------------------------------------------------------------
(* C11 *)

\* the request run until MarkChunkReceived has returned
AfterMark(req) == handleUpload(Cur, req, "mark.done")

ReassemblyFaults == {"none", "fault.temp", "fault.put"}

\* the session and the staging of a request whose reassembly failed are what
\* they were when the chunk had been marked, and the same request sent again
\* runs the reassembly again
KeptForRetry(req, r) ==
    LET a == AfterMark(req).st
        id == makeSessionID(req.Path)
        again == handleUpload(r.st, req, "none")
    IN /\ r.st.sessions = a.sessions /\ r.st.metaFiles = a.metaFiles
       /\ r.st.chunkDirs = a.chunkDirs /\ r.st.chunkFiles = a.chunkFiles
       /\ r.st.storageFiles = a.storageFiles
       /\ id \in DOMAIN r.st.sessions /\ r.st.sessions[id].Completed
       /\ id \in DOMAIN loadSessions(r.st.metaFiles)
       /\ loadSessions(r.st.metaFiles)[id] = r.st.sessions[id]
       /\ again.kind \in {"ok", "reassembly failed"}
       /\ again.kind = "ok"
            => again.detail = "stored" /\ Len(again.put) = 1 /\ again.deleted

\* C11: when the reassembly of a request fails (a staged chunk cannot be
\* read, the temporary file cannot be created, or storage.Put fails), the
\* session in memory and on disk and every staged chunk file are as they
\* were before the reassembly, nothing is stored, and sending the final
\* chunk again runs the reassembly again.
C11_FailedReassemblyKeepsSession ==
    \A req \in Requests, f \in ReassemblyFaults :
        LET r == handleUpload(Cur, req, f) IN
        r.kind = "reassembly failed" => KeptForRetry(req, r)

\* a reassembly has just failed, and the session is still there, completed
C11_Witness ==
    /\ last.op = "upload" /\ last.kind = "reassembly failed"
    /\ \E p \in Paths : HasSession(Cur, p) /\ SessionOf(Cur, p).Completed
                          /\ StagedFor(Cur, p) # EmptyMap

-----------------------------------------------------------------------------
(* C12 *)

Digests == {Sha256(d) : d \in Payloads}

\* transport.ChunkData with its Checksum field; handleUpload reads Path,
\* ChunkID, Total and Data only
ChunkDataOf(req, checksum) ==
    [Path |-> req.Path, ChunkID |-> req.ChunkID, Data |-> req.Data,
     Checksum |-> checksum, Total |-> req.Total]

\* the request's chunk is the last one its session misses
Completes(req) ==
    /\ AfterMark(req).kind = "crashed"
    /\ SessionOf(AfterMark(req).st, req.Path).Completed

\* C12: a chunk whose digest is a well-formed SHA-256 other than the digest
\* of its payload makes the reassembly of its upload fail: the request that
\* completes the upload is answered with the reassembly fault, no artifact
\* is written, and the session stays.
C12_CorruptDigestFailsReassembly ==
    \A req \in Requests, sum \in Digests :
        (sum # Sha256(req.Data) /\ Completes(req))
        => LET r == handleUpload(Cur, ChunkDataOf(req, sum), "none") IN
           /\ r.kind = "reassembly failed"
           /\ r.put = <<>> /\ r.st.storageFiles = storageFiles
           /\ HasSession(r.st, req.Path)

-----------------------------------------------------------------------------
(* C13 *)

\* C13: every request whose body parsed is answered, with the
\* acknowledgement (200) or with a fault (500), whatever its path, index and
\* total are: no request makes the handler panic.
C13_EveryRequestAnswered ==
    \A req \in Requests :
        LET r == handleUpload(Cur, req, "none") IN
        r.kind # "panic" /\ r.code \in {200, 500}

-----------------------------------------------------------------------------
(* C14 *)

\* the faults of the client: the declared total differs from the session's,
\* or the index is outside the session's range
ClientFaultDetails == {"mismatch", "invalid"}

\* the faults of the server: a session that cannot be saved, a staging
\* directory or chunk file that cannot be written, a failed reassembly
ServerFaultDetails ==
    {"save", "fault.mkdir", "fault.chunk", "create temp", "read chunk", "storage failed"}

\* what the caller is given to tell the outcome by: the status code
Signal(r) == r.code

ClientFaultSignals ==
    {Signal(handleUpload(Cur, req, "none")) :
        req \in {q \in Requests :
                    handleUpload(Cur, q, "none").detail \in ClientFaultDetails}}

ServerFaultSignals ==
    {Signal(handleUpload(Cur, x[1], x[2])) :
        x \in {y \in Requests \X (Faults \cup {"none"}) :
                  handleUpload(Cur, y[1], y[2]).detail \in ServerFaultDetails}}

\* C14: the faults of the client (total mismatch, index out of range) and
\* the faults of the server (staging write, session save, reassembly) are
\* reported with different signals: no signal is given for both.
C14_FaultClassesDistinct ==
    ClientFaultSignals \cap ServerFaultSignals = {}

-----------------------------------------------------------------------------
(* The server with its goroutines: handlers of /upload that take s.mu, and *)
(* a handler of /upload/status that does not                               *)

ConcPaths == {PA, PB}

\* well-formed chunks of uploads to ConcPaths
ConcRequests ==
    {req \in Requests : /\ req.Path \in ConcPaths
                        /\ req.Total >= 1 /\ req.ChunkID \in 0..(req.Total - 1)
                        /\ req.Data = <<7>>}

ReqOf(h) == handlers[h].req[1]

At(h, pc) == [handlers EXCEPT ![h] = [@ EXCEPT !.pc = pc]]

Done(h) == [handlers EXCEPT ![h] = IdleHandler]

\* the body has been read and parsed (server.go:87-97)
Arrive(h, req) ==
    /\ served < MaxRequests
    /\ handlers[h].pc = "idle"
    /\ handlers' = [handlers EXCEPT ![h] = [pc |-> "waiting", req |-> <<req>>]]
    /\ served' = served + 1
    /\ UNCHANGED <<sessions, metaFiles, chunkDirs, chunkFiles, tempFiles,
                   storageFiles, storageDirs, now, last, marked, mu, statusReq>>
    /\ UNCHANGED lockVars
    /\ UNCHANGED libVars

\* (mutant) the handler goes on without waiting for the lock
Acquire_NoLock(h) ==
    /\ handlers[h].pc = "waiting"
    /\ mu' = h
    /\ handlers' = At(h, "locked")
    /\ UNCHANGED <<sessions, metaFiles, chunkDirs, chunkFiles, tempFiles,
                   storageFiles, storageDirs, now, served, last, marked, statusReq>>
    /\ UNCHANGED lockVars
    /\ UNCHANGED libVars

\* s.mu.Lock()
Acquire(h) ==
    /\ handlers[h].pc = "waiting"
    /\ mu = 0
    /\ mu' = h
    /\ handlers' = At(h, "locked")
    /\ UNCHANGED <<sessions, metaFiles, chunkDirs, chunkFiles, tempFiles,
                   storageFiles, storageDirs, now, served, last, marked, statusReq>>
    /\ UNCHANGED lockVars
    /\ UNCHANGED libVars

\* from GetOrCreateSession to the test of session.Completed: the handler
\* answers (and the deferred Unlock runs) unless the session is completed
StageAndMark(h) ==
    /\ handlers[h].pc = "locked"
    /\ LET req == ReqOf(h)
           a == handleUpload(Cur, req, "mark.done")
           r == handleUpload(Cur, req, "none")
       IN IF a.kind = "crashed" /\ SessionOf(a.st, req.Path).Completed
          THEN /\ SetState(a.st)
               /\ handlers' = At(h, "reassembling")
               /\ marked' = MarkedAfter(marked, req.Path, req.ChunkID, a.created,
                                        TRUE, FALSE)
               /\ UNCHANGED <<mu, last>>
          ELSE /\ SetState(r.st)
               /\ handlers' = Done(h)
               /\ mu' = 0
               /\ last' = Last("upload", r.kind, r.detail)
               /\ marked' = MarkedAfter(marked, req.Path, req.ChunkID, r.created,
                                        r.markOk, r.deleted)
    /\ UNCHANGED <<served, statusReq>>
    /\ UNCHANGED lockVars
    /\ UNCHANGED libVars

\* reassembleFromDisk
Reassemble(h) ==
    /\ handlers[h].pc = "reassembling"
    /\ LET req == ReqOf(h)
           r == reassembleFromDisk(Cur, SessionChunksDir(req.Path).dir, req.Path,
                                   req.Total, "none")
       IN /\ SetState(r.st)
          /\ IF r.err = "none"
             THEN /\ handlers' = At(h, "cleaning")
                  /\ UNCHANGED <<mu, last>>
             ELSE /\ handlers' = Done(h)
                  /\ mu' = 0
                  /\ last' = Last("upload", "reassembly failed", r.err)
    /\ UNCHANGED <<served, marked, statusReq>>
    /\ UNCHANGED lockVars
    /\ UNCHANGED libVars

\* os.RemoveAll, DeleteSession, the acknowledgement
CleanStaging(h) ==
    /\ handlers[h].pc = "cleaning"
    /\ LET req == ReqOf(h) IN
        /\ SetState(DeleteSession(RemoveAll(Cur, SessionChunksDir(req.Path).dir),
                                  req.Path))
        /\ marked' = [marked EXCEPT ![req.Path] = {}]
    /\ handlers' = Done(h)
    /\ mu' = 0
    /\ last' = Last("upload", "ok", "stored")
    /\ UNCHANGED <<served, statusReq>>
    /\ UNCHANGED lockVars
    /\ UNCHANGED libVars

\* handleUploadStatus up to GetSession
StatusGet(path) ==
    /\ statusReq.pc = "idle"
    /\ statusReq' = [IdleStatus EXCEPT !.pc = "got", !.path = path,
                                       !.exists = GetSession(Cur, path).exists]
    /\ UNCHANGED <<sessions, metaFiles, chunkDirs, chunkFiles, tempFiles,
                   storageFiles, storageDirs, now, served, last, marked, mu, handlers>>
    /\ UNCHANGED lockVars
    /\ UNCHANGED libVars

\* handleUploadStatus from GetMissingChunks to the answer
StatusAnswer ==
    /\ statusReq.pc = "got"
    /\ LET m == GetMissingChunks(Cur, statusReq.path) IN
        statusReq' =
            IF ~statusReq.exists
            THEN [statusReq EXCEPT !.pc = "done", !.code = 200]
            ELSE IF m.err # "none"
            THEN [statusReq EXCEPT !.pc = "done", !.code = 500]
            ELSE [statusReq EXCEPT !.pc = "done", !.code = 200,
                                   !.missing = m.missing]
    /\ UNCHANGED <<sessions, metaFiles, chunkDirs, chunkFiles, tempFiles,
                   storageFiles, storageDirs, now, served, last, marked, mu, handlers>>
    /\ UNCHANGED lockVars
    /\ UNCHANGED libVars

NextConc ==
    \/ \E h \in Handlers, req \in ConcRequests : Arrive(h, req)
    \/ \E h \in Handlers : Acquire(h)
    \/ \E h \in Handlers : StageAndMark(h)
    \/ \E h \in Handlers : Reassemble(h)
    \/ \E h \in Handlers : CleanStaging(h)
    \/ \E p \in ConcPaths : StatusGet(p)
    \/ StatusAnswer

SpecConc == Init /\ [][NextConc]_vars

-----------------------------------------------------------------------------
(* C15 *)

\* C15: a status query is never answered with a fault, whatever upload
\* requests run between its steps: its answer is 200, with exists = false
\* and nothing else, or with exists = true and the status of the session.
C15_StatusNeverFaults ==
    statusReq.pc = "done" => statusReq.code = 200

-----------------------------------------------------------------------------
(* C16 *)

\* the handler is between s.mu.Lock() and its return
InCritical(h) == handlers[h].pc \in {"locked", "reassembling", "cleaning"}

\* the handler has found the session completed and has not returned yet
InReassembly(h) == handlers[h].pc \in {"reassembling", "cleaning"}

\* C16: at most one handler is reassembling at any time, for any path; and
\* from the test of the completed flag to the session's deletion no other
\* chunk request is under way: every other handler is idle or waits for
\* the lock, which the reassembling handler holds.
C16_OneReassemblyAtATime ==
    /\ \A p \in ConcPaths :
        Cardinality({h \in Handlers : InReassembly(h) /\ ReqOf(h).Path = p}) <= 1
    /\ \A h \in Handlers :
        InCritical(h) => /\ mu = h
                         /\ \A g \in Handlers \ {h} : ~InCritical(g)

\* one handler is reassembling an upload while another chunk request for
\* the same path waits for the lock
C16_Witness ==
    \E h, g \in Handlers :
        /\ h # g /\ InReassembly(h)
        /\ handlers[g].pc = "waiting" /\ ReqOf(g).Path = ReqOf(h).Path

-----------------------------------------------------------------------------
(* C17 *)

BitmapFitsTotal ==
    \A id \in DOMAIN sessions :
        Len(sessions[id].ReceivedMap) = sessions[id].TotalChunks

\* a session that is there before and after a step has the total it had
TotalKept ==
    \A id \in (DOMAIN sessions) \cap (DOMAIN sessions') :
        sessions'[id].TotalChunks = sessions[id].TotalChunks

\* C17: in every reachable state the bitmap of every session is as long as
\* the session's total, and no step changes the total of a session that
\* exists before and after it.
C17_BitmapLengthAndTotalFixed ==
    [](BitmapFitsTotal) /\ [][TotalKept]_vars

\* a session of two chunks with one of them received has come through a
\* crash and a restart
C17_Witness ==
    /\ last.kind = "crashed"
    /\ \E p \in Paths :
        /\ HasSession(Cur, p) /\ SessionOf(Cur, p).TotalChunks = 2
        /\ Len(SessionOf(Cur, p).ReceivedMap) = 2
        /\ \E i \in 1..2 : SessionOf(Cur, p).ReceivedMap[i]

-----------------------------------------------------------------------------
(* C18 *)

\* C18: in every reachable state, for every session whatever its total, the
\* completed flag is true exactly when every entry of the bitmap is true.
C18_CompletedIffAllReceived ==
    \A id \in DOMAIN sessions :
        sessions[id].Completed <=> AllReceived(sessions[id].ReceivedMap)

-----------------------------------------------------------------------------
(* C19 *)

\* C19: MarkChunkReceived fails with the session-not-found error when the
\* path has no session, and with the invalid-index error when the index is
\* outside [0, total); in both cases the sessions in memory and the
\* metadata files are what they were.
C19_MarkFailuresChangeNothing ==
    \A p \in Paths, i \in Indices :
        LET m == MarkChunkReceived(Cur, p, i, "none") IN
        /\ ~HasSession(Cur, p) => m = [st |-> Cur, err |-> "notfound"]
        /\ (HasSession(Cur, p) /\ (i < 0 \/ i >= SessionOf(Cur, p).TotalChunks))
            => m = [st |-> Cur, err |-> "invalid"]

\* an index out of range has just been refused for a session with a chunk
\* received, while another path has no session
C19_Witness ==
    /\ last = Last("markReceived", "invalid", "none")
    /\ \E p \in Paths : HasSession(Cur, p) /\ marked[p] # {}
    /\ \E p \in Paths : ~HasSession(Cur, p)

-----------------------------------------------------------------------------
(* C20 *)

\* the incomplete sessions last modified more than maxAge ago
Stale(maxAge) ==
    {id \in DOMAIN sessions :
        ~sessions[id].Completed /\ now - sessions[id].LastModified > maxAge}

-----------------------------------------------------------------------------
(* C21 *)

\* nothing of an upload to the path is left in the state
NoTrace(st, path) ==
    /\ ~HasSession(st, path)
    /\ makeSessionID(path) \notin DOMAIN st.metaFiles
    /\ StagedFor(st, path) = EmptyMap
    /\ SessionChunksDir(path).dir \notin st.chunkDirs
    /\ Base(path) \notin st.tempFiles

-----------------------------------------------------------------------------
(* pkg/chunk on its own: a buffer is split and the pieces reassembled, or a *)
(* list of chunks from any caller is reassembled                            *)

ByteVals == {7, 8}
Buffers == UNION {[1..n -> ByteVals] : n \in 0..MaxBuf}
SplitSizes == 0..MaxChunkSize

\* a checksum of 64 characters, the last nz of them 'f' (102), the others '0'
Padded(nz) == [k \in 1..DigestHexLen |-> IF k <= DigestHexLen - nz THEN 48 ELSE 102]

\* the checksums a caller may send with a payload: its digest, the digest of
\* another payload, 64 zeros, 16 and 17 characters other than '0', the empty
\* string, a string of 63 characters
SampleChecksums(data) ==
    {Sum256Hex(data), Sum256Hex(data \o <<9>>), Padded(0),
     Padded(FallbackNonZero), Padded(FallbackNonZero + 1), <<>>,
     SubSeq(Sum256Hex(data \o <<9>>), 1, DigestHexLen - 1)}

SampleChunks ==
    UNION {{[ID |-> i, Data |-> d, Checksum |-> cs] :
                i \in 0..(MaxChunks - 1), cs \in SampleChecksums(d)} :
           d \in Payloads}

ChunkLists == UNION {[1..n -> SampleChunks] : n \in 0..MaxChunks}

InitChunk ==
    /\ InitServer
    /\ \/ \E data \in Buffers, size \in SplitSizes :
            codec = [IdleCodec EXCEPT !.pc = "data", !.origin = "buffer",
                                      !.c = NewChunker(size), !.data = data]
       \/ \E chunks \in ChunkLists :
            codec = [IdleCodec EXCEPT !.pc = "chunks", !.origin = "chunks",
                                      !.chunks = chunks]
    /\ auth = IdleAuth

\* chunks := c.Split(data)
SplitStep ==
    /\ codec.pc = "data"
    /\ codec' = [codec EXCEPT !.pc = "chunks", !.chunks = Split(codec.c, codec.data)]
    /\ UNCHANGED <<serverVars, auth>>

\* data, err := c.Reassemble(chunks)
ReassembleStep ==
    /\ codec.pc = "chunks"
    /\ codec' = [codec EXCEPT !.pc = "done", !.out = ChunkerReassemble(codec.chunks)]
    /\ UNCHANGED <<serverVars, auth>>

NextChunk == SplitStep \/ ReassembleStep

SpecChunk == InitChunk /\ [][NextChunk]_vars

-----------------------------------------------------------------------------
(* C22 *)

\* C22: the pieces of any buffer, split with any chunk size above zero, are
\* reassembled without error into exactly the buffer.
C22_RoundTrip ==
    (codec.pc = "done" /\ codec.origin = "buffer")
    => /\ codec.c.Size > 0
       /\ codec.out.err = "none"
       /\ codec.out.data = codec.data

\* a buffer of several pieces, the last one short, has made the round trip
C22_Witness ==
    /\ codec.pc = "done" /\ codec.origin = "buffer"
    /\ Len(codec.chunks) >= 2
    /\ Len(codec.data) % codec.c.Size # 0
    /\ codec.out.data = codec.data

\* the empty buffer has made the round trip
C22_WitnessEmpty ==
    /\ codec.pc = "done" /\ codec.origin = "buffer"
    /\ codec.data = <<>> /\ codec.out.err = "none" /\ codec.out.data = <<>>

-----------------------------------------------------------------------------
(* C23 *)

\* ceil(n / size)
CeilDiv(n, size) == (n + size - 1) \div size

\* C23: Split returns ceil(len/S) chunks with the indices 0, 1, 2, ... in
\* order; every chunk but the last holds S bytes, the last between 1 and S;
\* each checksum is the digest of the chunk's own payload; an empty buffer
\* gives no chunk.
C23_SplitShape ==
    (codec.pc = "chunks" /\ codec.origin = "buffer")
    => LET S == codec.c.Size
           n == Len(codec.chunks)
       IN /\ n = CeilDiv(Len(codec.data), S)
          /\ \A k \in 1..n :
                /\ codec.chunks[k].ID = k - 1
                /\ k < n => Len(codec.chunks[k].Data) = S
                /\ Len(codec.chunks[k].Data) \in 1..S
                /\ codec.chunks[k].Checksum = Sum256Hex(codec.chunks[k].Data)
          /\ codec.data = <<>> => codec.chunks = <<>>

\* a buffer has been split into two chunks or more, the last one short
C23_Witness ==
    /\ codec.pc = "chunks" /\ codec.origin = "buffer"
    /\ Len(codec.chunks) >= 2
    /\ Len(codec.chunks[Len(codec.chunks)].Data) < codec.c.Size

-----------------------------------------------------------------------------
(* C24 *)

\* some chunk of the list is not at the position its index names
Misplaced(chunks) == \E k \in 1..Len(chunks) : chunks[k].ID # k - 1

\* the first position (from 0) whose chunk carries another index
FirstMisplaced(chunks) ==
    CHOOSE i \in 0..(Len(chunks) - 1) :
        /\ chunks[i + 1].ID # i
        /\ \A j \in 0..(i - 1) : chunks[j + 1].ID = j

\* a checksum of a digest's length that is not the payload's digest and has
\* more characters other than '0' than a fallback checksum has
RealLookingWrong(chunk) ==
    /\ Len(chunk.Checksum) = DigestHexLen
    /\ chunk.Checksum # Sum256Hex(chunk.Data)
    /\ NonZeroCount(chunk.Checksum) > FallbackNonZero

Reassembled == codec.pc = "done" /\ codec.origin = "chunks"

\* C24 as stated: a list with a chunk out of its place is refused with the
\* out-of-order error and no data.
C24_MisplacedGivesOrderError ==
    (Reassembled /\ Misplaced(codec.chunks))
    => codec.out.err = "order" /\ codec.out.data = <<>>

\* C24: a list with a chunk out of its place is always refused and no data
\* is returned; the error is the out-of-order error naming the first such
\* position unless a chunk before that position carries a wrong checksum
\* that looks like a real digest, in which case it is the checksum-mismatch
\* error.
C24_MisplacedNeverReassembled ==
    (Reassembled /\ Misplaced(codec.chunks))
    => LET f == FirstMisplaced(codec.chunks) IN
       /\ codec.out.data = <<>>
       /\ codec.out.err \in {"order", "mismatch"}
       /\ codec.out.err = "mismatch"
            <=> \E j \in 0..(f - 1) : RealLookingWrong(codec.chunks[j + 1])
       /\ codec.out.err = "order" => codec.out.at = f

\* two chunks in exchanged places, with their own digests, were refused
\* with the out-of-order error
C24_Witness ==
    /\ Reassembled
    /\ Len(codec.chunks) = 2
    /\ codec.chunks[1].ID = 1 /\ codec.chunks[2].ID = 0
    /\ \A k \in 1..2 : codec.chunks[k].Checksum = Sum256Hex(codec.chunks[k].Data)
    /\ codec.out.err = "order" /\ codec.out.data = <<>>

\* a chunk out of its place behind a chunk with a wrong digest: the error is
\* the checksum-mismatch error
C24_MismatchFirst ==
    /\ Reassembled
    /\ Misplaced(codec.chunks)
    /\ codec.out.err = "mismatch"

-----------------------------------------------------------------------------
(* C25 *)

\* the fallback shape: 64 characters, at most 16 of them other than '0'
FallbackShape(checksum) ==
    /\ Len(checksum) = DigestHexLen
    /\ NonZeroCount(checksum) <= FallbackNonZero

\* the chunks Reassemble took into its result
Accepted ==
    IF codec.out.err = "none" THEN 1..Len(codec.chunks) ELSE 1..codec.out.at

\* C25: a chunk is accepted only with its payload's digest or a checksum of
\* fallback shape; a chunk in its place whose checksum is neither makes
\* Reassemble fail with the checksum-mismatch error; each acceptance of a
\* fallback checksum prints a warning.
C25_DigestOrFallbackOnly ==
    Reassembled
    => /\ \A k \in Accepted :
            \/ codec.chunks[k].Checksum = Sum256Hex(codec.chunks[k].Data)
            \/ /\ FallbackShape(codec.chunks[k].Checksum)
               /\ \E w \in 1..Len(codec.out.warned) : codec.out.warned[w] = k - 1
       /\ (/\ ~Misplaced(codec.chunks)
           /\ \E k \in 1..Len(codec.chunks) :
                /\ codec.chunks[k].Checksum # Sum256Hex(codec.chunks[k].Data)
                /\ ~FallbackShape(codec.chunks[k].Checksum))
          => codec.out.err = "mismatch"

\* a list was reassembled without error and without warning although a
\* chunk's checksum is neither its payload's digest nor of fallback shape
C25_UnverifiedAccepted ==
    /\ Reassembled
    /\ codec.out.err = "none" /\ codec.out.warned = <<>>
    /\ \E k \in 1..Len(codec.chunks) :
        /\ codec.chunks[k].Checksum # Sum256Hex(codec.chunks[k].Data)
        /\ ~FallbackShape(codec.chunks[k].Checksum)

-----------------------------------------------------------------------------
(* pkg/storage on its own: any caller, any of the six operations, on a     *)
(* disk that holds a file next to the storage root                         *)

MaxStorageOps == 3

\* "x", "/x", "d/x", "d", "../x", "/../x", "d/../../x", "../d/x", ""
StoragePaths ==
    {<<120>>, <<47, 120>>, <<100, 47, 120>>, <<100>>, <<46, 46, 47, 120>>,
     <<47, 46, 46, 47, 120>>, <<100, 47, 46, 46, 47, 46, 46, 47, 120>>,
     <<46, 46, 47, 100, 47, 120>>, <<>>}

\* the file "/s/x", outside the root, and its content
OutsideFile == << <<115>>, <<120>> >>
Secret == <<66>>

InitStorage ==
    /\ sessions = EmptyMap
    /\ metaFiles = EmptyMap
    /\ chunkDirs = {}
    /\ chunkFiles = EmptyMap
    /\ tempFiles = {}
    /\ storageFiles = MapPut(EmptyMap, OutsideFile, Secret)
    /\ storageDirs = Prefixes(RootDir)
    /\ now = 0
    /\ served = 0
    /\ last = Last("none", "none", "none")
    /\ marked = [p \in Paths |-> {}]
    /\ mu = 0
    /\ handlers = [h \in Handlers |-> IdleHandler]
    /\ statusReq = IdleStatus
    /\ storeMu = FreeLock
    /\ sweeper = IdleSweeper
    /\ codec = IdleCodec
    /\ auth = IdleAuth

StoragePut(path, data) ==
    /\ served < MaxStorageOps
    /\ LET r == Put(Cur, path, data) IN
        /\ Install(r.st)
        /\ last' = Last("Put", r.err, <<>>)
    /\ UNCHANGED marked

StorageGet(path) ==
    /\ served < MaxStorageOps
    /\ Install(Cur)
    /\ last' = Last("Get", Get(Cur, path).err, Get(Cur, path).data)
    /\ UNCHANGED marked

StorageExists(path) ==
    /\ served < MaxStorageOps
    /\ Install(Cur)
    /\ last' = Last("Exists", "none", Exists(Cur, path))
    /\ UNCHANGED marked

StorageList(path) ==
    /\ served < MaxStorageOps
    /\ Install(Cur)
    /\ last' = Last("List", List(Cur, path).err, List(Cur, path).names)
    /\ UNCHANGED marked

StorageDelete(path) ==
    /\ served < MaxStorageOps
    /\ LET r == Delete(Cur, path) IN
        /\ Install(r.st)
        /\ last' = Last("Delete", r.err, <<>>)
    /\ UNCHANGED marked

StorageMkdir(path) ==
    /\ served < MaxStorageOps
    /\ LET r == Mkdir(Cur, path) IN
        /\ Install(r.st)
        /\ last' = Last("Mkdir", r.err, <<>>)
    /\ UNCHANGED marked

NextStorage ==
    \/ \E path \in StoragePaths, data \in Payloads : StoragePut(path, data)
    \/ \E path \in StoragePaths : StorageGet(path)
    \/ \E path \in StoragePaths : StorageExists(path)
    \/ \E path \in StoragePaths : StorageList(path)
    \/ \E path \in StoragePaths : StorageDelete(path)
    \/ \E path \in StoragePaths : StorageMkdir(path)

SpecStorage == InitStorage /\ [][NextStorage]_vars

-----------------------------------------------------------------------------
(* C26 *)

\* where the path leads when it is followed from the root, a leading slash
\* ignored: each ".." goes one directory up
Lands(path) == Resolve(RootDir \o Comps(path), <<>>, TRUE)

\* the same for a path that is cleaned on its own first, so that the ".."
\* elements that would climb above a leading slash are dropped
LandsCleaned(path) ==
    Resolve(RootDir \o Resolve(Comps(path), <<>>, path # <<>> /\ path[1] = 47),
            <<>>, TRUE)

\* the part of the disk outside the root
OutsideOf(st) ==
    [files |-> [k \in {f \in DOMAIN st.storageFiles : ~IsUnder(f, RootDir)}
                  |-> st.storageFiles[k]],
     dirs |-> {d \in st.storageDirs : ~IsUnder(d, RootDir)}]

\* the disk with everything outside the root taken away
InsideOnly(st) ==
    [st EXCEPT !.storageFiles = [k \in {f \in DOMAIN @ : IsUnder(f, RootDir)} |-> @[k]]]

\* every operation on the path fails (Exists: is false) and changes nothing
Refused(path) ==
    /\ \A data \in Payloads :
        Put(Cur, path, data).err # "none" /\ Put(Cur, path, data).st = Cur
    /\ Get(Cur, path).err # "none" /\ Get(Cur, path).data = <<>>
    /\ List(Cur, path).err # "none" /\ List(Cur, path).names = <<>>
    /\ Delete(Cur, path).err # "none" /\ Delete(Cur, path).st = Cur
    /\ Mkdir(Cur, path).err # "none" /\ Mkdir(Cur, path).st = Cur
    /\ ~Exists(Cur, path)

\* no operation writes outside the root, and none returns anything that
\* depends on what is outside
RootConfined(path) ==
    /\ \A data \in Payloads : OutsideOf(Put(Cur, path, data).st) = OutsideOf(Cur)
    /\ OutsideOf(Delete(Cur, path).st) = OutsideOf(Cur)
    /\ OutsideOf(Mkdir(Cur, path).st) = OutsideOf(Cur)
    /\ Get(Cur, path) = Get(InsideOnly(Cur), path)
    /\ List(Cur, path) = List(InsideOnly(Cur), path)
    /\ Exists(Cur, path) = Exists(InsideOnly(Cur), path)

\* "x" and "d/x", the names put with a leading slash
PlainNames == {<<120>>, <<100, 47, 120>>}

\* Put("/x") followed by Get("x") returns the data put
SlashIsRoot ==
    \A name \in PlainNames, data \in Payloads :
        LET r == Put(Cur, <<47>> \o name, data) IN
        r.err = "none" => Get(r.st, name) = [err |-> "none", data |-> data]

\* C26 as stated: every operation on a path that leads out of the root, its
\* leading slash ignored, is refused; nothing outside the root is read or
\* written; Put("/x") then Get("x") returns the data.
C26_EscapingPathRefused ==
    /\ \A path \in StoragePaths :
        /\ ~IsUnder(Lands(path), RootDir) => Refused(path)
        /\ RootConfined(path)
    /\ SlashIsRoot

\* C26: every operation on a path that, once cleaned, leads out of the root
\* is refused; a path with a leading slash cannot climb above that slash and
\* is served inside the root; nothing outside the root is read or written;
\* Put("/x") then Get("x") returns the data.
C26_CleanedEscapingPathRefused ==
    /\ \A path \in StoragePaths :
        /\ ~IsUnder(LandsCleaned(path), RootDir) => Refused(path)
        /\ (path # <<>> /\ path[1] = 47) => IsUnder(LandsCleaned(path), RootDir)
        /\ RootConfined(path)
    /\ SlashIsRoot

\* "/x" has been put and "x" read back with the data, while the file next
\* to the root is what it was and "../x" is refused
C26_Witness ==
    /\ last.op = "Get" /\ last.kind = "none" /\ last.detail = <<8, 9>>
    /\ Get(Cur, <<120>>).data = <<8, 9>>
    /\ Get(Cur, <<47, 120>>).data = <<8, 9>>
    /\ OutsideFile \in DOMAIN storageFiles /\ storageFiles[OutsideFile] = Secret
    /\ Refused(<<46, 46, 47, 120>>)

-----------------------------------------------------------------------------
(* The server's authentication, the admin tool and the clock               *)

MaxAuthOps == 3
MaxNow == 2

TokenOf(id, secret, user, permissions, expiresAt, revoked) ==
    [ID |-> Str(id), TokenHash |-> Sha256(Str(secret)), User |-> Str(user),
     Permissions |-> permissions, CreatedAt |-> 0, ExpiresAt |-> expiresAt,
     Revoked |-> revoked]

\* the tokens "gfl-admin create" has written: alice may upload until time 1,
\* bob may do everything, carol may download and list
SampleTokens(carolRevoked) ==
    <<TokenOf("tok_a", "sa", "alice", <<Str("upload")>>, 1, FALSE),
      TokenOf("tok_b", "sb", "bob", <<Str("*")>>, MaxNow + 1, FALSE),
      TokenOf("tok_c", "sc", "carol", <<Str("download"), Str("list")>>,
              MaxNow + 1, carolRevoked)>>

TokenFiles ==
    {NoFile} \cup
    {[exists |-> TRUE,
      tokens |-> [i \in 1..3 |-> MarshalToken(SampleTokens(r)[i])]] :
        r \in BOOLEAN}

SecretWords == {"sa", "sb", "sc", "zz"}
TokenIDs == {Str("tok_a"), Str("tok_b"), Str("tok_c"), Str("tok_z")}
Nonces == {Str("n1"), Str("n2")}

\* the permissions the server's routes require, and none
RequiredPermissions == {<<>>, Str("upload"), Str("download"), Str("list")}

BearerHeader(word) == <<W("Bearer"), SP, W(word)>>
ChallengeHeader(response, nonce, tokenID) ==
    <<W("Challenge"), SP>> \o response \o <<SEMI>> \o nonce \o <<SEMI>> \o tokenID

\* the Authorization headers a request may carry
Headers ==
    {<<>>, <<W("Bearer")>>, <<W("bearer"), SP, W("sb")>>,
     <<W("Basic"), SP, W("sb")>>,
     <<W("Challenge"), SP>> \o HmacHex(Sha256(Str("sb")), Str("n1"))
        \o <<SEMI>> \o Str("n1")}
    \cup {BearerHeader(word) : word \in SecretWords}
    \cup {ChallengeHeader(HmacHex(Sha256(Str(word)), n), n, id) :
            word \in SecretWords, n \in Nonces, id \in TokenIDs}

InitAuth ==
    /\ InitServer
    /\ codec = IdleCodec
    /\ \E file \in TokenFiles :
        auth = [IdleAuth EXCEPT !.file = file, !.tokens = NewTokenStore(file)]

\* a request to a route wrapped by RequireAuth
AuthRequest(requiredPermission, authHeader) ==
    /\ auth.ops < MaxAuthOps
    /\ LET r == RequireAuth(auth, requiredPermission, authHeader) IN
        auth' = [r.a EXCEPT !.ops = @ + 1,
                            !.out = [op |-> "request", code |-> r.code, ran |-> r.ran]]
    /\ UNCHANGED <<serverVars, codec>>

\* GET /auth/challenge
GetChallenge(nonce) ==
    /\ auth.ops < MaxAuthOps
    /\ nonce \notin DOMAIN auth.challenges
    /\ auth' = [GenerateChallenge(auth, nonce) EXCEPT
                    !.ops = @ + 1,
                    !.out = [op |-> "challenge", code |-> 200, ran |-> FALSE]]
    /\ UNCHANGED <<serverVars, codec>>

\* gfl-admin revoke <token_id>
AdminRevoke(tokenID) ==
    /\ auth.ops < MaxAuthOps
    /\ LET r == revokeCommand(auth.file, tokenID) IN
        auth' = [auth EXCEPT !.file = r.file, !.ops = @ + 1,
                             !.out = [op |-> "revoke",
                                      code |-> IF r.found THEN 0 ELSE 1,
                                      ran |-> FALSE]]
    /\ UNCHANGED <<serverVars, codec>>

\* the server is stopped and started: NewTokenStore, NewMiddleware
ServerRestart ==
    /\ auth.ops < MaxAuthOps
    /\ auth' = [auth EXCEPT !.tokens = NewTokenStore(auth.file),
                            !.challenges = EmptyMap, !.ops = @ + 1,
                            !.out = [op |-> "restart", code |-> 0, ran |-> FALSE]]
    /\ UNCHANGED <<serverVars, codec>>

\* time passes
Tick ==
    /\ auth.now < MaxNow
    /\ auth' = [auth EXCEPT !.now = @ + 1]
    /\ UNCHANGED <<serverVars, codec>>

\* the ticker of cleanupExpired fires
CleanupExpired ==
    /\ cleanupExpired(auth) # auth
    /\ auth' = cleanupExpired(auth)
    /\ UNCHANGED <<serverVars, codec>>

NextAuth ==
    \/ \E p \in RequiredPermissions, h \in Headers : AuthRequest(p, h)
    \/ \E n \in Nonces : GetChallenge(n)
    \/ \E id \in TokenIDs : AdminRevoke(id)
    \/ ServerRestart
    \/ Tick
    \/ CleanupExpired

SpecAuth == InitAuth /\ [][NextAuth]_vars

-----------------------------------------------------------------------------
(* C27 *)

\* the tokens known to the server
KnownTokens == {auth.tokens[h] : h \in DOMAIN auth.tokens}

\* the header is a credential for the token: the secret the token's hash
\* was made of, or the token's ID with the MAC of a nonce under its hash
Identifies(authHeader, token) ==
    \/ \E word \in SecretWords :
        /\ authHeader = BearerHeader(word)
        /\ Sha256(Str(word)) = token.TokenHash
    \/ \E n \in Nonces :
        authHeader = ChallengeHeader(HmacHex(token.TokenHash, n), n, token.ID)

Usable(token) == ~token.Revoked /\ ~(auth.now > token.ExpiresAt)

Grants(token, requiredPermission) ==
    \E i \in 1..Len(token.Permissions) :
        token.Permissions[i] \in {requiredPermission, Str("*")}

-----------------------------------------------------------------------------
(* C28 *)

\* C28: a token marked revoked in the token file cannot be used: every
\* request with it, Bearer or challenge-response, is rejected, also by a
\* server that was running when the token was revoked.
C28_RevokedInFileIsRejected ==
    \A i \in 1..Len(auth.file.tokens) :
        auth.file.tokens[i].revoked
        => \A p \in RequiredPermissions, h \in Headers :
            Identifies(h, UnmarshalToken(auth.file.tokens[i]))
            => ~RequireAuth(auth, p, h).ran

\* bob's token has just been revoked in the file and the running server
\* still runs the handler for it
C28_RevokedStillServed ==
    /\ auth.out.op = "revoke" /\ auth.out.code = 0
    /\ \E i \in 1..Len(auth.file.tokens) :
        /\ auth.file.tokens[i].revoked
        /\ auth.file.tokens[i].id = Str("tok_b")
    /\ RequireAuth(auth, Str("upload"), BearerHeader("sb")).ran

-----------------------------------------------------------------------------
(* cmd/client: gfl put, run against the server                             *)

MaxPuts == 2

\* the client's chunk size (1 MB), scaled down
ClientChunkSize == 2

\* the requests uploadSingleFile makes for a file: one chunk with Total 1
\* for a file below the chunk size, else the pieces in order
ClientRequests(data, remotePath) ==
    IF Len(data) < ClientChunkSize THEN <<ChunkReq(remotePath, 0, 1, data)>>
    ELSE [k \in 1..((Len(data) + ClientChunkSize - 1) \div ClientChunkSize) |->
            ChunkReq(remotePath, k - 1,
                     (Len(data) + ClientChunkSize - 1) \div ClientChunkSize,
                     SubSeq(data, (k - 1) * ClientChunkSize + 1,
                            IF k * ClientChunkSize > Len(data) THEN Len(data)
                            ELSE k * ClientChunkSize))]

\* the loop of uploadSingleFile from request k on: UploadChunk for each, the
\* process ending at the first refusal (log.Fatalf) or when it is
\* interrupted after stop requests. sent lists the indices sent; queried
\* tells whether QueryUploadStatus was called (it never is).
RECURSIVE UploadLoop(_, _, _, _, _)
UploadLoop(st, reqs, k, stop, sent) ==
    IF k > Len(reqs)
    THEN [st |-> st, sent |-> sent, end |-> "complete", queried |-> FALSE]
    ELSE IF k > stop
    THEN [st |-> st, sent |-> sent, end |-> "interrupted", queried |-> FALSE]
    ELSE IF handleUpload(st, reqs[k], "none").code # 200
    THEN [st |-> handleUpload(st, reqs[k], "none").st,
          sent |-> Append(sent, k - 1), end |-> "failed", queried |-> FALSE]
    ELSE UploadLoop(handleUpload(st, reqs[k], "none").st, reqs, k + 1, stop,
                    Append(sent, k - 1))

uploadSingleFile(st, data, remotePath, stop) ==
    UploadLoop(st, ClientRequests(data, remotePath), 1, stop, <<>>)

ClientFiles == Buffers

\* gfl put <file> <remotePath>, interrupted after stop requests or not at
\* all (stop is then the number of requests)
ClientPut(data, remotePath, stop) ==
    /\ served < MaxPuts
    /\ LET r == uploadSingleFile(Cur, data, remotePath, stop) IN
        /\ SetState(r.st)
        /\ last' = Last("put", r.end,
                        [data |-> data, path |-> remotePath, sent |-> r.sent])
    /\ served' = served + 1
    /\ UNCHANGED <<marked, mu, handlers, statusReq, lockVars, libVars>>

NextClient ==
    \E data \in ClientFiles, path \in Paths :
        \E stop \in 0..Len(ClientRequests(data, path)) :
            ClientPut(data, path, stop)

SpecClient == Init /\ [][NextClient]_vars

-----------------------------------------------------------------------------
(* C29 *)

\* C29: when gfl put is run again for a file whose chunked upload to the
\* same path was interrupted, the client queries the server for the missing
\* chunks and sends only those: no chunk the server has recorded as
\* received is sent again.
C29_ResumeSendsOnlyMissing ==
    (/\ last.op = "put" /\ last.kind = "interrupted"
     /\ last.detail.sent # <<>>
     /\ HasSession(Cur, last.detail.path))
    => LET again == uploadSingleFile(Cur, last.detail.data, last.detail.path,
                                     Len(last.detail.data) + 1)
       IN /\ again.queried
          /\ \A i \in Range(again.sent) :
                ~SessionOf(Cur, last.detail.path).ReceivedMap[i + 1]

\* a put of two chunks or more was interrupted after its first chunk, and
\* the same put run again sends chunk 0 although the server has it
C29_ResentReceivedChunk ==
    /\ last.op = "put" /\ last.kind = "interrupted"
    /\ HasSession(Cur, last.detail.path)
    /\ SessionOf(Cur, last.detail.path).ReceivedMap[1]
    /\ 0 \in Range(uploadSingleFile(Cur, last.detail.data, last.detail.path,
                                    Len(last.detail.data) + 1).sent)

-----------------------------------------------------------------------------
(* C30 *)

StagingFaults == {"fault.mkdir", "fault.chunk"}

\* the bitmap entry of the request's index, FALSE when there is no session
\* or no such entry
BitAt(st, req) ==
    /\ HasSession(st, req.Path)
    /\ req.ChunkID + 1 \in 1..Len(SessionOf(st, req.Path).ReceivedMap)
    /\ SessionOf(st, req.Path).ReceivedMap[req.ChunkID + 1]

\* the request fails at staging, is answered as a server fault, leaves the
\* bitmap entry as it was, and succeeds when it is submitted again
RetrySucceeds(req, fault) ==
    LET failed == handleUpload(Cur, req, fault) IN
    failed.kind \in {"mkdir failed", "write failed"}
    => /\ failed.code = 500
       /\ BitAt(failed.st, req) = BitAt(Cur, req)
       /\ handleUpload(failed.st, req, "none").kind = "ok"

\* C30: a request whose staging fails is reported as a server-side fault,
\* does not set the bitmap entry of its index, and succeeds when the
\* identical request is submitted again with file I/O working.
C30_StagingFailureIsRetryable ==
    \A req \in Requests, fault \in StagingFaults : RetrySucceeds(req, fault)

\* the same for the requests whose index lies within their total
C30_ValidIndexRetrySucceeds ==
    \A req \in Requests, fault \in StagingFaults :
        req.ChunkID \in 0..(req.Total - 1) => RetrySucceeds(req, fault)


\* and whose session, if there is one, still has every chunk it recorded
\* as received in its staging directory
C30_IntactSessionRetrySucceeds ==
    \A req \in Requests, fault \in StagingFaults :
        (/\ req.ChunkID \in 0..(req.Total - 1)
         /\ HasSession(Cur, req.Path)
            => \A i \in 1..Len(SessionOf(Cur, req.Path).ReceivedMap) :
                SessionOf(Cur, req.Path).ReceivedMap[i]
                => <<SessionChunksDir(req.Path).dir, i - 1>> \in DOMAIN chunkFiles)
        => RetrySucceeds(req, fault)

-----------------------------------------------------------------------------
(* C33 *)

\* the chunk file staged for (path, i): <<its content>>, or <<>> without one
StagedAt(st, path, i) ==
    LET d == SessionChunksDir(path) IN
    IF ~d.panic /\ <<d.dir, i>> \in DOMAIN st.chunkFiles
    THEN <<st.chunkFiles[<<d.dir, i>>]>>
    ELSE <<>>

\* the session of the path records index i as received
Recorded(st, path, i) ==
    /\ HasSession(st, path)
    /\ i + 1 \in 1..Len(SessionOf(st, path).ReceivedMap)
    /\ SessionOf(st, path).ReceivedMap[i + 1]

\* C33: between requests, every index that a session's bitmap records as
\* received has a staged chunk file, and that file holds the payload of the
\* latest accepted submission of the index: an accepted request leaves its
\* payload staged under its index, and no request changes the file of
\* another recorded (path, index).
C33_RecordedChunkIsStagedWithItsPayload ==
    /\ \A p \in Paths, i \in Indices : Recorded(Cur, p, i) => StagedAt(Cur, p, i) # <<>>
    /\ \A req \in Requests :
        LET r == handleUpload(Cur, req, "none") IN
        /\ (r.markOk /\ ~r.deleted)
            => StagedAt(r.st, req.Path, req.ChunkID) = <<req.Data>>
        /\ \A p \in Paths, i \in Indices :
            (/\ Recorded(Cur, p, i) /\ Recorded(r.st, p, i)
             /\ ~(p = req.Path /\ i = req.ChunkID))
            => StagedAt(r.st, p, i) = StagedAt(Cur, p, i)

-----------------------------------------------------------------------------
(* C34 *)

\* the ways in which n requests for one path and m for another can arrive:
\* schedule[k] = 1 when the k-th request is for the first path
Schedules(n, m) ==
    {s \in [1..(n + m) -> {1, 2}] : Cardinality({k \in 1..(n + m) : s[k] = 1}) = n}

\* the two uploads submitted as the schedule says, each in ascending index
\* order; failed: some request was answered "reassembly failed"
RECURSIVE RunSchedule(_, _, _, _, _, _)
RunSchedule(st, up, schedule, k, next, failed) ==
    IF k > Len(schedule) THEN [st |-> st, failed |-> failed]
    ELSE LET u == up[schedule[k]]
             r == handleUpload(st, ChunkReq(u.path, next[schedule[k]], u.total,
                                            u.pay[next[schedule[k]]]), "none")
         IN RunSchedule(r.st, up, schedule, k + 1,
                        [next EXCEPT ![schedule[k]] = @ + 1],
                        failed \/ r.kind = "reassembly failed")

UploadsOf(path) ==
    {[path |-> path, total |-> t, pay |-> pay] :
        t \in 1..MaxTotal, pay \in UNION {[0..(n - 1) -> Payloads] : n \in 1..MaxTotal}}

WellFormedUpload(u) == DOMAIN u.pay = 0..(u.total - 1)

\* C34: uploads to two distinct paths, their chunks arriving interleaved in
\* any way, each end with the path's artifact equal to the concatenation of
\* the payloads submitted for that path in index order, and no reassembly
\* fails on the way.
C34_InterleavedUploadsStayApart ==
    Idle(Cur) =>
        \A u1 \in UploadsOf(PA), u2 \in UploadsOf(PB) :
            (WellFormedUpload(u1) /\ WellFormedUpload(u2)) =>
                \A schedule \in Schedules(u1.total, u2.total) :
                    LET run == RunSchedule(Cur, <<u1, u2>>, schedule, 1, <<0, 0>>, FALSE) IN
                    /\ ~run.failed
                    /\ Get(run.st, PA) = [err |-> "none",
                                          data |-> ConcatFrom(u1.pay, 0, u1.total)]
                    /\ Get(run.st, PB) = [err |-> "none",
                                          data |-> ConcatFrom(u2.pay, 0, u2.total)]

-----------------------------------------------------------------------------
(* C36 *)

\* the error that the store's caller gets back
Returned(err) == err \in {"mismatch", "notfound", "invalid", "save"}

\* C36: when GetOrCreateSession or MarkChunkReceived returns an error, be it
\* because the session record could not be written, the session map (every
\* bitmap and completed flag in it) and the metadata files are what they
\* were before the call.
C36_FailedStoreCallChangesNothing ==
    /\ \A p \in Paths, t \in Totals, c \in ChunkSizes, f \in {"none", "fault.create.save"} :
        LET g == GetOrCreateSession(Cur, p, t, c, f) IN
        Returned(g.err) => g.st.sessions = sessions /\ g.st.metaFiles = metaFiles
    /\ \A p \in Paths, i \in Indices, f \in {"none", "fault.mark.save"} :
        LET m == MarkChunkReceived(Cur, p, i, f) IN
        Returned(m.err) => m.st.sessions = sessions /\ m.st.metaFiles = metaFiles

-----------------------------------------------------------------------------
(* C37 *)

\* the staged chunk file belongs to a session that is there and has the index
OwnedBySession(st, name) ==
    \E p \in Paths :
        /\ ~SessionChunksDir(p).panic /\ SessionChunksDir(p).dir = name[1]
        /\ HasSession(st, p)
        /\ name[2] \in 0..(SessionOf(st, p).TotalChunks - 1)

\* C37: between requests, every staged chunk file is staged for a path
\* that has a session and under an index within that session's total.
C37_NoOrphanedStagedChunk ==
    \A name \in DOMAIN chunkFiles : OwnedBySession(Cur, name)

-----------------------------------------------------------------------------
(* The server with a periodic sweep: upload requests arrive, with or       *)
(* without failing system calls, until the clock reads QuietFrom; a        *)
(* goroutine calls CleanupOldSessions(SweepAge) whenever its timer fires   *)

QuietFrom == 2
SweepAge == 1
MaxClock == 5

ArrivingUpload(req) ==
    /\ now < QuietFrom
    /\ Upload(req)

ArrivingUploadWithFault(req, fault) ==
    /\ now < QuietFrom
    /\ UploadWithFault(req, fault)

\* the sweep is due
TimerFires ==
    /\ sweeper.pc = "idle"
    /\ sweeper' = [IdleSweeper EXCEPT !.pc = "waiting", !.maxAge = SweepAge]
    /\ UNCHANGED <<sessions, metaFiles, chunkDirs, chunkFiles, tempFiles,
                   storageFiles, storageDirs, now, served, last, marked, mu,
                   handlers, statusReq, storeMu>>
    /\ UNCHANGED libVars

\* CleanupOldSessions from its start to its end. The clock is followed up
\* to MaxClock: the uploads have stopped at QuietFrom, so beyond MaxClock no
\* comparison of the clock with a LastModified changes.
PeriodicCleanup ==
    /\ sweeper.pc = "waiting"
    /\ LET st == CleanupOldSessions(Cur, sweeper.maxAge) IN
        /\ SetState([st EXCEPT !.now = IF @ > MaxClock THEN MaxClock ELSE @])
        /\ last' = Last("cleanup", "none",
                        IF DOMAIN st.sessions = DOMAIN sessions THEN "kept"
                        ELSE "removed")
        /\ marked' = [p \in Paths |->
                        IF makeSessionID(p) \in DOMAIN st.sessions THEN marked[p] ELSE {}]
    /\ sweeper' = IdleSweeper
    /\ UNCHANGED <<served, mu, handlers, statusReq, storeMu>>
    /\ UNCHANGED libVars

NextReclaim ==
    \/ \E req \in Requests : ArrivingUpload(req)
    \/ \E req \in Requests, f \in Faults : ArrivingUploadWithFault(req, f)
    \/ TimerFires
    \/ PeriodicCleanup

\* the sweep is periodic: the timer keeps firing and the sweep keeps running
SpecReclaim ==
    Init /\ [][NextReclaim]_vars /\ WF_vars(TimerFires) /\ WF_vars(PeriodicCleanup)

-----------------------------------------------------------------------------
(* C38 *)

\* C38: once no upload request arrives any more, the periodic sweep sooner
\* or later removes every session, in whatever state it was left, and the
\* store stays empty.
C38_EverySessionReclaimed ==
    <>[](sessions = EmptyMap)

\* the same for the sessions that are not completed
C38_IncompleteSessionsReclaimed ==
    <>[](\A id \in DOMAIN sessions : sessions[id].Completed)

\* a completed session whose reassembly failed has been passed over by a sweep
C38_CompletedPassedOver ==
    /\ last = Last("cleanup", "none", "kept") /\ now = MaxClock
    /\ \E id \in DOMAIN sessions : sessions[id].Completed

-----------------------------------------------------------------------------
(* The server goroutine by goroutine and lock by lock: the handlers of     *)
(* /upload, the handler of /upload/status and a goroutine that calls       *)
(* CleanupOldSessions, each taking and releasing s.mu and the session      *)
(* store's lock where the code does                                        *)

MaxSweeps == 1
SweepAges == {0, SweepAge}

\* what handleUpload and the store's methods read and write
dataVars == <<sessions, metaFiles, chunkDirs, chunkFiles, tempFiles,
              storageFiles, storageDirs, now>>

\* the goroutines, as holders of the store's lock
UploadG(h) == <<"upload", h>>
StatusG == <<"status", 0>>
SweepG == <<"sweep", 0>>

\* sync.RWMutex: Lock waits for the writer and the readers to leave, RLock
\* for the writer
CanLock(l) == l.w = {} /\ l.r = {}
CanRLock(l) == l.w = {}
Locked(l, g) == [l EXCEPT !.w = {g}]
Unlocked(l, g) == [l EXCEPT !.w = @ \ {g}]
RLocked(l, g) == [l EXCEPT !.r = @ \cup {g}]
RUnlocked(l, g) == [l EXCEPT !.r = @ \ {g}]

\* the handler goes to pc; out is the response it has decided on
Goes(h, pc, out) == [handlers EXCEPT ![h] = [pc |-> pc, req |-> @.req, out |-> out]]

\* the *UploadSession that the status handler holds is the object in the
\* map (same path, same creation): it sees what MarkChunkReceived writes
Shared(s, st, path) ==
    /\ s.obj # <<>>
    /\ s.obj[1].Path = path
    /\ HasSession(st, path)
    /\ SessionOf(st, path).CreatedAt = s.obj[1].CreatedAt

\* a request has reached the server: the handler starts reading its body
ArriveRequest(h, req) ==
    /\ served < MaxRequests
    /\ handlers[h].pc = "idle"
    /\ handlers' = [handlers EXCEPT ![h] = [pc |-> "reading", req |-> <<req>>,
                                            out |-> <<>>]]
    /\ served' = served + 1
    /\ UNCHANGED <<dataVars, last, marked, mu, statusReq, lockVars, libVars>>

\* io.ReadAll(r.Body), json.Unmarshal
ReadBody(h) ==
    /\ handlers[h].pc = "reading"
    /\ handlers' = Goes(h, "waiting", <<>>)
    /\ UNCHANGED <<dataVars, served, last, marked, mu, statusReq, lockVars, libVars>>

\* GetOrCreateSession: s.mu.Lock() of the store
BeginGetOrCreate(h) ==
    /\ handlers[h].pc = "locked"
    /\ CanLock(storeMu)
    /\ storeMu' = Locked(storeMu, UploadG(h))
    /\ handlers' = Goes(h, "creating", <<>>)
    /\ UNCHANGED <<dataVars, served, last, marked, mu, statusReq, sweeper, libVars>>

\* GetOrCreateSession: its body and the deferred Unlock
EndGetOrCreate(h) ==
    /\ handlers[h].pc = "creating"
    /\ LET req == ReqOf(h)
           g == GetOrCreateSession(Cur, req.Path, req.Total, Len(req.Data), "none")
       IN /\ SetState(g.st)
          /\ handlers' = IF g.err = "none" THEN Goes(h, "staging", <<>>)
                         ELSE Goes(h, "answering", Last("upload", "session error", g.err))
          /\ marked' = MarkedAfter(marked, req.Path, req.ChunkID, g.created, FALSE, FALSE)
    /\ storeMu' = Unlocked(storeMu, UploadG(h))
    /\ UNCHANGED <<served, last, mu, statusReq, sweeper, libVars>>

\* os.MkdirAll, os.WriteFile of the chunk, then MarkChunkReceived:
\* s.mu.Lock() of the store
StageAndBeginMark(h) ==
    /\ handlers[h].pc = "staging"
    /\ CanLock(storeMu)
    /\ LET req == ReqOf(h)
           dir == SessionChunksDir(req.Path).dir
       IN SetState(WriteChunk(MkdirAll(Cur, dir), dir, req.ChunkID, req.Data))
    /\ storeMu' = Locked(storeMu, UploadG(h))
    /\ handlers' = Goes(h, "marking", <<>>)
    /\ UNCHANGED <<served, last, marked, mu, statusReq, sweeper, libVars>>

\* MarkChunkReceived: its body and the deferred Unlock, then the test of
\* session.Completed
EndMark(h) ==
    /\ handlers[h].pc = "marking"
    /\ LET req == ReqOf(h)
           m == MarkChunkReceived(Cur, req.Path, req.ChunkID, "none")
       IN /\ SetState(m.st)
          /\ handlers' =
                IF m.err # "none"
                THEN Goes(h, "answering", Last("upload", "mark failed", m.err))
                ELSE IF SessionOf(m.st, req.Path).Completed
                THEN Goes(h, "reassembling", <<>>)
                ELSE Goes(h, "answering", Last("upload", "ok", "received"))
          /\ marked' = MarkedAfter(marked, req.Path, req.ChunkID, FALSE,
                                   m.err = "none", FALSE)
          /\ statusReq' = IF m.err = "none" /\ Shared(statusReq, Cur, req.Path)
                          THEN [statusReq EXCEPT !.obj = <<SessionOf(m.st, req.Path)>>]
                          ELSE statusReq
    /\ storeMu' = Unlocked(storeMu, UploadG(h))
    /\ UNCHANGED <<served, last, mu, sweeper, libVars>>

\* reassembleFromDisk
RunReassembly(h) ==
    /\ handlers[h].pc = "reassembling"
    /\ LET req == ReqOf(h)
           r == reassembleFromDisk(Cur, SessionChunksDir(req.Path).dir, req.Path,
                                   req.Total, "none")
       IN /\ SetState(r.st)
          /\ handlers' = IF r.err = "none" THEN Goes(h, "cleaning", <<>>)
                         ELSE Goes(h, "answering",
                                   Last("upload", "reassembly failed", r.err))
    /\ UNCHANGED <<served, last, marked, mu, statusReq, lockVars, libVars>>

\* os.RemoveAll, then DeleteSession: s.mu.Lock() of the store
BeginDelete(h) ==
    /\ handlers[h].pc = "cleaning"
    /\ CanLock(storeMu)
    /\ SetState(RemoveAll(Cur, SessionChunksDir(ReqOf(h).Path).dir))
    /\ storeMu' = Locked(storeMu, UploadG(h))
    /\ handlers' = Goes(h, "deleting", <<>>)
    /\ UNCHANGED <<served, last, marked, mu, statusReq, sweeper, libVars>>

\* DeleteSession: its body and the deferred Unlock
EndDelete(h) ==
    /\ handlers[h].pc = "deleting"
    /\ SetState(DeleteSession(Cur, ReqOf(h).Path))
    /\ marked' = [marked EXCEPT ![ReqOf(h).Path] = {}]
    /\ storeMu' = Unlocked(storeMu, UploadG(h))
    /\ handlers' = Goes(h, "answering", Last("upload", "ok", "stored"))
    /\ UNCHANGED <<served, last, mu, statusReq, sweeper, libVars>>

\* (mutant) the handler returns and s.mu stays locked
Respond_KeepLock(h) ==
    /\ handlers[h].pc = "answering"
    /\ last' = handlers[h].out
    /\ handlers' = Done(h)
    /\ UNCHANGED <<dataVars, served, marked, mu, statusReq, lockVars, libVars>>

\* http.Error or w.WriteHeader and fmt.Fprintf, then the return: the
\* deferred s.mu.Unlock() runs
Respond(h) ==
    /\ handlers[h].pc = "answering"
    /\ last' = handlers[h].out
    /\ handlers' = Done(h)
    /\ mu' = 0
    /\ UNCHANGED <<dataVars, served, marked, statusReq, lockVars, libVars>>

\* a status query has reached the server
StatusArrive(path) ==
    /\ statusReq.pc = "idle"
    /\ statusReq' = [IdleStatus EXCEPT !.pc = "arrived", !.path = path]
    /\ UNCHANGED <<dataVars, served, last, marked, mu, handlers, lockVars, libVars>>

\* GetSession: s.mu.RLock()
BeginGetSession ==
    /\ statusReq.pc = "arrived"
    /\ CanRLock(storeMu)
    /\ storeMu' = RLocked(storeMu, StatusG)
    /\ statusReq' = [statusReq EXCEPT !.pc = "getting"]
    /\ UNCHANGED <<dataVars, served, last, marked, mu, handlers, sweeper, libVars>>

\* GetSession: the lookup and the deferred RUnlock
EndGetSession ==
    /\ statusReq.pc = "getting"
    /\ LET g == GetSession(Cur, statusReq.path) IN
        statusReq' = [statusReq EXCEPT !.exists = g.exists, !.obj = g.session,
                                       !.pc = IF g.exists THEN "got" ELSE "encoding"]
    /\ storeMu' = RUnlocked(storeMu, StatusG)
    /\ UNCHANGED <<dataVars, served, last, marked, mu, handlers, sweeper, libVars>>

\* GetMissingChunks: s.mu.RLock()
BeginGetMissing ==
    /\ statusReq.pc = "got"
    /\ CanRLock(storeMu)
    /\ storeMu' = RLocked(storeMu, StatusG)
    /\ statusReq' = [statusReq EXCEPT !.pc = "scanning"]
    /\ UNCHANGED <<dataVars, served, last, marked, mu, handlers, sweeper, libVars>>

\* GetMissingChunks: the scan and the deferred RUnlock; an error is
\* answered with 500
EndGetMissing ==
    /\ statusReq.pc = "scanning"
    /\ LET m == GetMissingChunks(Cur, statusReq.path) IN
        statusReq' = IF m.err # "none"
                     THEN [statusReq EXCEPT !.pc = "done", !.code = 500]
                     ELSE [statusReq EXCEPT !.pc = "copying", !.missing = m.missing]
    /\ storeMu' = RUnlocked(storeMu, StatusG)
    /\ UNCHANGED <<dataVars, served, last, marked, mu, handlers, sweeper, libVars>>

\* response.TotalChunks, .ReceivedMap (the slice, not its elements) and
\* .Completed are read from the session, no lock held
CopyFields ==
    /\ statusReq.pc = "copying"
    /\ statusReq' = [statusReq EXCEPT !.pc = "encoding",
                                      !.total = statusReq.obj[1].TotalChunks,
                                      !.completed = statusReq.obj[1].Completed]
    /\ UNCHANGED <<dataVars, served, last, marked, mu, handlers, lockVars, libVars>>

\* json.NewEncoder(w).Encode(response): the elements of the bitmap are read
\* from the session's slice, no lock held
Encode ==
    /\ statusReq.pc = "encoding"
    /\ statusReq' = [statusReq EXCEPT !.pc = "done", !.code = 200,
                                      !.bitmap = IF statusReq.exists
                                                 THEN statusReq.obj[1].ReceivedMap
                                                 ELSE <<>>]
    /\ UNCHANGED <<dataVars, served, last, marked, mu, handlers, lockVars, libVars>>

\* CleanupOldSessions(maxAge) has been called
SweepArrive(maxAge) ==
    /\ sweeper.pc = "idle"
    /\ sweeper.runs < MaxSweeps
    /\ sweeper' = [pc |-> "waiting", maxAge |-> maxAge, runs |-> sweeper.runs + 1]
    /\ UNCHANGED <<dataVars, served, last, marked, mu, handlers, statusReq, storeMu,
                   libVars>>

\* CleanupOldSessions: s.mu.Lock()
BeginCleanup ==
    /\ sweeper.pc = "waiting"
    /\ CanLock(storeMu)
    /\ storeMu' = Locked(storeMu, SweepG)
    /\ sweeper' = [sweeper EXCEPT !.pc = "locked"]
    /\ UNCHANGED <<dataVars, served, last, marked, mu, handlers, statusReq, libVars>>

\* CleanupOldSessions: its body and the deferred Unlock
EndCleanup ==
    /\ sweeper.pc = "locked"
    /\ LET st == CleanupOldSessions(Cur, sweeper.maxAge) IN
        /\ SetState(st)
        /\ marked' = [p \in Paths |->
                        IF makeSessionID(p) \in DOMAIN st.sessions THEN marked[p] ELSE {}]
    /\ storeMu' = Unlocked(storeMu, SweepG)
    /\ sweeper' = [sweeper EXCEPT !.pc = "idle"]
    /\ UNCHANGED <<served, last, mu, handlers, statusReq, libVars>>

\* what a handler of /upload does once its request is there
HandlerStep(h) ==
    \/ ReadBody(h)
    \/ Acquire(h)
    \/ BeginGetOrCreate(h)
    \/ EndGetOrCreate(h)
    \/ StageAndBeginMark(h)
    \/ EndMark(h)
    \/ RunReassembly(h)
    \/ BeginDelete(h)
    \/ EndDelete(h)
    \/ Respond(h)

StatusStep ==
    \/ BeginGetSession
    \/ EndGetSession
    \/ BeginGetMissing
    \/ EndGetMissing
    \/ CopyFields
    \/ Encode

SweepStep == BeginCleanup \/ EndCleanup

NextSteps ==
    \/ \E h \in Handlers, req \in ConcRequests : ArriveRequest(h, req)
    \/ \E h \in Handlers : HandlerStep(h)
    \/ \E p \in ConcPaths : StatusArrive(p)
    \/ StatusStep
    \/ \E a \in SweepAges : SweepArrive(a)
    \/ SweepStep

\* the goroutine's next step can be taken: it is not one that waits for a
\* lock, or the lock is free for it
CanHandlerStep(h) ==
    \/ handlers[h].pc \in {"reading", "creating", "marking", "reassembling",
                           "deleting", "answering"}
    \/ handlers[h].pc = "waiting" /\ mu = 0
    \/ handlers[h].pc \in {"locked", "staging", "cleaning"} /\ CanLock(storeMu)

CanStatusStep ==
    \/ statusReq.pc \in {"getting", "scanning", "copying", "encoding"}
    \/ statusReq.pc \in {"arrived", "got"} /\ CanRLock(storeMu)

CanSweepStep ==
    \/ sweeper.pc = "locked"
    \/ sweeper.pc = "waiting" /\ CanLock(storeMu)

\* the scheduler is weakly fair to every goroutine: one whose next step can
\* be taken from some point on takes it (WF_vars of the goroutine's steps,
\* with the steps' guards written out)
FairSteps ==
    /\ \A h \in Handlers : []<>(~CanHandlerStep(h)) \/ []<><<HandlerStep(h)>>_vars
    /\ []<>(~CanStatusStep) \/ []<><<StatusStep>>_vars
    /\ []<>(~CanSweepStep) \/ []<><<SweepStep>>_vars

SpecSteps == Init /\ [][NextSteps]_vars /\ FairSteps

-----------------------------------------------------------------------------
(* C31 *)

\* the locks that the upload handler holds
HoldsServerLock(h) == mu = h
HoldsStoreLock(h) == UploadG(h) \in (storeMu.w \cup storeMu.r)

\* the handler is inside a method of the session store, which changes the
\* session map and the metadata file
MutatingSessions(h) == handlers[h].pc \in {"creating", "marking", "deleting"}

\* the handler is reading the request from, or writing the response to,
\* the client
OnTheNetwork(h) == handlers[h].pc \in {"reading", "answering"}

\* C31: an upload handler holds s.mu and the store's lock only while it
\* changes the session state in memory and on disk, and holds neither while
\* it reads the request body or writes the response; the status handler
\* holds no lock while it writes its response.
C31_NoLockAcrossNetworkIO ==
    /\ \A h \in Handlers :
        /\ OnTheNetwork(h) => ~HoldsServerLock(h) /\ ~HoldsStoreLock(h)
        /\ (HoldsServerLock(h) \/ HoldsStoreLock(h))
            => handlers[h].pc = "locked" \/ MutatingSessions(h)
    /\ statusReq.pc \in {"copying", "encoding", "done"}
        => StatusG \notin (storeMu.w \cup storeMu.r)

\* what holds of it: no lock is held while the body is read, and the
\* store's lock is held inside the store's methods only
C31_StoreLockInsideStoreMethods ==
    /\ \A h \in Handlers :
        /\ handlers[h].pc = "reading" => ~HoldsServerLock(h) /\ ~HoldsStoreLock(h)
        /\ HoldsStoreLock(h) => MutatingSessions(h)
    /\ StatusG \in (storeMu.w \cup storeMu.r) => statusReq.pc \in {"getting", "scanning"}
    /\ SweepG \in (storeMu.w \cup storeMu.r) => sweeper.pc = "locked"

\* a handler writes its response with s.mu locked
C31_RespondingUnderLock ==
    \E h \in Handlers : handlers[h].pc = "answering" /\ HoldsServerLock(h)

-----------------------------------------------------------------------------
(* C32 *)

\* a goroutine is inside an invocation
UploadPending(h) == handlers[h].pc # "idle"
StatusPending == statusReq.pc \notin {"idle", "done"}
SweepPending == sweeper.pc # "idle"

\* no invocation is under way
Quiet == ~StatusPending /\ ~SweepPending /\ \A h \in Handlers : ~UploadPending(h)

\* the store's lock is taken by an upload handler only while it holds s.mu,
\* and nobody who holds the store's lock waits for s.mu
LockOrder ==
    \A h \in Handlers :
        /\ UploadG(h) \in storeMu.w => mu = h
        /\ handlers[h].pc = "waiting" => UploadG(h) \notin (storeMu.w \cup storeMu.r)

\* while an invocation is under way some goroutine can take a step
NotStuck ==
    ((\E h \in Handlers : UploadPending(h)) \/ StatusPending \/ SweepPending)
    => ((\E h \in Handlers : CanHandlerStep(h)) \/ CanStatusStep \/ CanSweepStep)

\* C32: with upload requests, a status query and a sweep running at the
\* same time, s.mu is always taken before the store's lock, no state is a
\* deadlock, and every invocation returns.
C32_EveryInvocationReturns ==
    /\ [](LockOrder /\ NotStuck)
    /\ []<>Quiet

\* a handler holds s.mu and waits for the store's lock, which the sweep
\* holds, while the other handler waits for s.mu and the status query for
\* the store's lock
C32_Witness ==
    \E h, g \in Handlers :
        /\ handlers[h].pc \in {"locked", "staging", "cleaning"} /\ mu = h
        /\ handlers[g].pc = "waiting"
        /\ storeMu.w = {SweepG}
        /\ statusReq.pc \in {"arrived", "got"}

-----------------------------------------------------------------------------
(* C35 *)

\* the status query has been answered 200 with exists = true
StatusReturned == statusReq.pc = "done" /\ statusReq.code = 200 /\ statusReq.exists

\* C35: a status record returned with exists = true is a snapshot of one
\* state of the session, whatever upload requests run meanwhile: its
\* missing indices are the false positions of its bitmap in ascending
\* order, its bitmap has as many entries as its total, and it is completed
\* exactly when nothing is missing.
C35_StatusIsOneSnapshot ==
    StatusReturned =>
        /\ statusReq.missing = MissingFrom(statusReq.bitmap, 1)
        /\ Len(statusReq.bitmap) = statusReq.total
        /\ statusReq.completed <=> statusReq.missing = <<>>

\* the record is consistent when no chunk was marked between GetSession
\* and the encoding of the response
C35_TornStatus ==
    /\ StatusReturned
    /\ statusReq.missing # MissingFrom(statusReq.bitmap, 1)

-----------------------------------------------------------------------------
(* C39 *)

\* the handler obtained its session and MarkChunkReceived did not find it
MarkFoundNoSession(h) ==
    /\ handlers[h].pc = "answering"
    /\ handlers[h].out = Last("upload", "mark failed", "notfound")

\* C39: a request that has obtained its session from GetOrCreateSession is
\* never answered "session not found" by MarkChunkReceived, whatever the
\* sweep and the other requests do meanwhile.
C39_MarkAlwaysFindsSession ==
    \A h \in Handlers : ~MarkFoundNoSession(h)

-----------------------------------------------------------------------------
(* Requests with a challenge response, step by step.  net/http serves      *)
(* every request in a goroutine of its own; RequireAuth runs in it before  *)
(* the wrapped handler.  The challenge store's lock is taken and released  *)
(* around one map access at a time, so every critical section is one step. *)

\* the nonces crypto/rand yields, in the order of the calls: no value twice
IssuedNonces == <<Str("n1"), Str("n2")>>

\* the permissions of the routes the requests go to
ReplayPermissions == {Str("upload"), Str("download")}

\* the Authorization headers of the requests: bob's and alice's token with
\* the right response to either nonce, a wrong response, an unknown token
\* ID, a header of two parts, a bearer token
ReplayHeaders ==
    {ChallengeHeader(HmacHex(Sha256(Str(word)), n), n, Str("tok_b")) :
        word \in {"sb", "zz"}, n \in Nonces}
    \cup {ChallengeHeader(HmacHex(Sha256(Str("sa")), Str("n1")), Str("n1"),
                          Str("tok_a")),
          ChallengeHeader(HmacHex(Sha256(Str("sb")), Str("n1")), Str("n1"),
                          Str("tok_z")),
          <<W("Challenge"), SP>> \o HmacHex(Sha256(Str("sb")), Str("n1"))
             \o <<SEMI>> \o Str("n1"),
          BearerHeader("sb")}

\* the goroutine of request h has answered: the status, whether next ran,
\* and the nonce the request was admitted with (empty for a bearer token)
Answered(h, code, ran, nonce) ==
    [handlers EXCEPT ![h] = [pc |-> "done", req |-> @.req, code |-> code,
                             ran |-> ran, nonce |-> nonce]]

\* a request to a route wrapped by RequireAuth arrives
ReplayArrive(h, requiredPermission, authHeader) ==
    /\ handlers[h].pc = "idle"
    /\ handlers' = [handlers EXCEPT ![h] =
            [pc |-> "arrived",
             req |-> [permission |-> requiredPermission, authHeader |-> authHeader]]]
    /\ UNCHANGED <<dataVars, served, last, marked, mu, statusReq, lockVars, libVars>>

\* RequireAuth up to the call of ValidateResponse: the header is split and
\* the token looked up by its ID; a bearer token is settled here
ParseAndGetToken(h) ==
    /\ handlers[h].pc = "arrived"
    /\ LET hdr == handlers[h].req.authHeader
           perm == handlers[h].req.permission
           parts == StringsSplit(TrimPrefix(hdr, <<W("Challenge"), SP>>), SEMI)
       IN handlers' =
            IF ~HasPrefix(hdr, <<W("Challenge"), SP>>)
            THEN Answered(h, RequireAuth(auth, perm, hdr).code,
                          RequireAuth(auth, perm, hdr).ran, <<>>)
            ELSE IF Len(parts) # 3 \/ ~GetTokenByID(auth, parts[3]).found
            THEN Answered(h, 401, FALSE, <<>>)
            ELSE [handlers EXCEPT ![h] =
                    [pc |-> "token", req |-> @.req, response |-> parts[1],
                     nonce |-> parts[2],
                     token |-> GetTokenByID(auth, parts[3]).token]]
    /\ UNCHANGED <<dataVars, served, last, marked, mu, statusReq, lockVars, libVars>>

\* ValidateResponse: cs.mu.RLock(); challenge, exists := cs.challenges[nonce];
\* cs.mu.RUnlock(); an unknown nonce ends the request
LookupNonce(h) ==
    /\ handlers[h].pc = "token"
    /\ handlers' =
        IF handlers[h].nonce \notin DOMAIN auth.challenges
        THEN Answered(h, 401, FALSE, <<>>)
        ELSE [handlers EXCEPT ![h] =
                [pc |-> "found", req |-> @.req, response |-> @.response,
                 nonce |-> @.nonce, token |-> @.token,
                 ExpiresAt |-> auth.challenges[@.nonce]]]
    /\ UNCHANGED <<dataVars, served, last, marked, mu, statusReq, lockVars, libVars>>

\* ValidateResponse: time.Now().After(challenge.ExpiresAt), and the MAC of
\* the nonce under the token's hash, computed without the lock
CheckExpiry(h) ==
    /\ handlers[h].pc = "found"
    /\ handlers' = [handlers EXCEPT ![h] =
            [pc |-> IF auth.now > @.ExpiresAt THEN "expired" ELSE "fresh",
             req |-> @.req, response |-> @.response, nonce |-> @.nonce,
             token |-> @.token,
             valid |-> @.response = HmacHex(@.token.TokenHash, @.nonce)]]
    /\ UNCHANGED <<dataVars, served, last, marked, mu, statusReq, lockVars, libVars>>

\* ValidateResponse: cs.mu.Lock(); delete(cs.challenges, nonce);
\* cs.mu.Unlock(), on the expired and on the fresh branch
DeleteNonce(h) ==
    /\ handlers[h].pc \in {"expired", "fresh"}
    /\ auth' = [auth EXCEPT !.challenges = MapDel(@, handlers[h].nonce)]
    /\ handlers' =
        IF handlers[h].pc = "expired" THEN Answered(h, 401, FALSE, <<>>)
        ELSE [handlers EXCEPT ![h] = [@ EXCEPT !.pc = "validated"]]
    /\ UNCHANGED <<dataVars, served, last, marked, mu, statusReq, lockVars, codec>>

\* RequireAuth after ValidateResponse returned without error: the response
\* is compared with the expected MAC, the permission checked, next called
Admit(h) ==
    /\ handlers[h].pc = "validated"
    /\ LET r == Permit([a |-> auth,
                        err |-> IF handlers[h].response
                                    = HmacHex(handlers[h].token.TokenHash,
                                              handlers[h].nonce)
                                THEN "none" ELSE "response",
                        user |-> handlers[h].token.User,
                        permissions |-> handlers[h].token.Permissions],
                       handlers[h].req.permission)
       IN handlers' = Answered(h, r.code, r.ran, handlers[h].nonce)
    /\ UNCHANGED <<dataVars, served, last, marked, mu, statusReq, lockVars, libVars>>

\* GET /auth/challenge: GenerateChallenge stores the next nonce
IssueChallenge ==
    /\ auth.ops < Len(IssuedNonces)
    /\ GetChallenge(IssuedNonces[auth.ops + 1])

ReplayStep(h) ==
    \/ \E p \in ReplayPermissions, hdr \in ReplayHeaders : ReplayArrive(h, p, hdr)
    \/ ParseAndGetToken(h)
    \/ LookupNonce(h)
    \/ CheckExpiry(h)
    \/ DeleteNonce(h)
    \/ Admit(h)

NextReplay ==
    \/ \E h \in Handlers : ReplayStep(h)
    \/ IssueChallenge
    \/ Tick
    \/ CleanupExpired

SpecReplay == InitAuth /\ [][NextReplay]_vars

-----------------------------------------------------------------------------
(* C40 *)

\* the requests that reached the wrapped handler with the nonce
AdmittedWith(nonce) ==
    {h \in Handlers : /\ handlers[h].pc = "done"
                      /\ handlers[h].ran
                      /\ handlers[h].nonce = nonce}

\* C40: a nonce issued by GenerateChallenge authenticates at most one
\* request: of the requests presenting it with a correct response, in any
\* interleaving, at most one passes ValidateResponse and reaches the
\* wrapped handler.
C40_NonceAdmitsAtMostOneRequest ==
    \A n \in Nonces : Cardinality(AdmittedWith(n)) <= 1

\* a request that looks the nonce up after another request deleted it is
\* rejected: the reuse of a nonce by a later request is refused
C40_LaterReuseRejected ==
    \A h, g \in Handlers :
        (/\ h # g
         /\ handlers[h].pc \in {"validated", "done"}
         /\ handlers[h].pc = "done" => handlers[h].nonce # <<>>
         /\ handlers[g].pc = "token"
         /\ handlers[g].nonce = handlers[h].nonce)
        => handlers[g].nonce \notin DOMAIN auth.challenges

\* both requests found the nonce before either deleted it
C40_BothFoundTheNonce ==
    \A h \in Handlers : handlers[h].pc = "found" /\ handlers[h].nonce = Str("n1")

====
